---- MODULE Spec2Model ----
(***************************************************************************)
(* A model of goldfish's command execution engine (package engine):        *)
(* Engine.Execute with validateContext, the platform template lookup,      *)
(* renderTemplate and executeCommand, and Engine.ParseParameters with      *)
(* convertArgument.                                                        *)
(*                                                                         *)
(* Representation.                                                         *)
(*  - A Go string that the code inspects or builds character by character  *)
(*    (a raw argument, a flag name, rendered text) is a sequence of        *)
(*    one-character strings; "verbose", "echo" and the like stand for one   *)
(*    letter-only piece of such a string.  Parameter names, declared types *)
(*    and platform names are only compared, and are plain strings.         *)
(*  - An interface{} value is a pair <<kind, payload>>, kind being the     *)
(*    dynamic Go type ("string", "bool", "int", "int32", ...), and         *)
(*    <<"nil", 0>> the nil interface.                                      *)
(*  - A map[string]interface{} is a function from its keys; a nil map is   *)
(*    told apart from an empty one by a flag beside it.  Where the code    *)
(*    ranges over a map, the iteration order is an explicit argument       *)
(*    chosen nondeterministically by the caller, as the Go runtime does.   *)
(***************************************************************************)
EXTENDS Integers, Sequences, FiniteSets, TLC

VARIABLES
    engine,       \* the Engine: [timeout], set once by NewEngine
    ctx,          \* the ExecutionContext of the invocation in progress
    ctxBefore,    \* copy of ctx taken when Execute was called
    pc,           \* position of the Execute invocation
    stages,       \* history: the stages this invocation ran, with their verdicts
    platformCmd,  \* Execute's local platformCmd (the template found)
    renderedCmd,  \* Execute's local renderedCmd
    timeout,      \* executeCommand's local timeout (after the fallback)
    armed,        \* a context with a deadline exists for this invocation
    elapsed,      \* time units elapsed since that context was created
    ctxErr,       \* ctx.Err() of that context: "nil" or "DeadlineExceeded"
    proc,         \* the child process: "none", "running", "exited", "killed"
    exitStatus,   \* the status the child exited with on its own
    hitRunning,   \* history: the deadline elapsed while the child was running
    spawned,      \* history: number of children started by this invocation
    runErr,       \* the error cmd.Run() returned
    outcome,      \* the error Execute returned
    cmd,          \* ParseParameters' input: the command definition
    args,         \* ParseParameters' input: the positional arguments
    flags,        \* ParseParameters' input: the flag map
    calls,        \* number of ParseParameters calls made on this input
    result,       \* what the latest ParseParameters call returned
    prevResult,   \* what the call before it returned
    typeDef,      \* validateParameterType's input: the parameter definition
    typeValue,    \* validateParameterType's input: the value
    typeErr,      \* the error validateParameterType returned
    convArg,      \* convertArgument's input: the raw argument
    convResult,   \* what convertArgument returned for convArg and typeDef.Type
    typeCalls,    \* which of the two have been called on these inputs
    tmplCommand,  \* renderTemplate's input: the command
    tmplText,     \* renderTemplate's input: the platform template
    tmplParams,   \* renderTemplate's input: the parameter map
    tmplBuffer,   \* history: what tmpl.Execute wrote to the buffer
    tmplResult,   \* what renderTemplate returned
    tmplCalled,   \* renderTemplate has been called on these inputs
    inv,          \* concurrent Execute invocations: the locals of each
    checked,      \* what validateContext said of the map ParseParameters returned
    goos,         \* the platform the goldfish process runs on
    cliFlags,     \* the flags given on goldfish's command line, by flag name
    appPc,        \* position of the goldfish process (main)
    appErr,       \* the error rootCmd.Execute() returned to main
    exitCode,     \* the status the goldfish process exited with
    mBase,        \* MergeConfigs' input: base
    mOverride,    \* MergeConfigs' input: override
    mResult,      \* what MergeConfigs returned
    mCalled,      \* MergeConfigs has been called on these inputs
    vConfig,      \* Loader.validate's input
    vErr,         \* the error Loader.validate returned
    vCalled       \* Loader.validate has been called on this input

execVars == <<engine, ctx, ctxBefore, pc, stages, platformCmd, renderedCmd, timeout,
              armed, elapsed, ctxErr, proc, exitStatus, hitRunning, spawned, runErr,
              outcome>>

parseVars == <<cmd, args, flags, calls, result, prevResult, checked>>

typeVars == <<typeDef, typeValue, typeErr, convArg, convResult, typeCalls>>

tmplVars == <<tmplCommand, tmplText, tmplParams, tmplBuffer, tmplResult, tmplCalled>>

cliVars == <<goos, cliFlags, appPc, appErr, exitCode>>

cfgVars == <<mBase, mOverride, mResult, mCalled, vConfig, vErr, vCalled>>

\* What the steps of the single Execute invocation leave alone.
otherVars == <<parseVars, typeVars, tmplVars, inv, cliVars, cfgVars>>

vars == <<engine, ctx, ctxBefore, pc, stages, platformCmd, renderedCmd, timeout,
          armed, elapsed, ctxErr, proc, exitStatus, hitRunning, spawned, runErr,
          outcome, cmd, args, flags, calls, result, prevResult, typeDef, typeValue,
          typeErr, convArg, convResult, typeCalls, tmplCommand, tmplText, tmplParams,
          tmplBuffer, tmplResult, tmplCalled, inv, checked, goos, cliFlags, appPc,
          appErr, exitCode, mBase, mOverride, mResult, mCalled, vConfig, vErr, vCalled>>

(***************************************************************************)
(* Bounds of the model.                                                    *)
(***************************************************************************)
\* Largest timeout (context's or engine's) tried, in time units.
MaxTimeout == 2

\* Most positional arguments handed to ParseParameters.
MaxArgs == 3

\* Most entries of a flag map handed to ParseParameters.
MaxFlags == 2

\* Number of ParseParameters calls made on one input.
MaxCalls == 2

(***************************************************************************)
(* Values, maps, text.                                                     *)
(***************************************************************************)
Nil == <<"nil", 0>>

Kind(v) == v[1]

Payload(v) == v[2]

StrV(s) == <<"string", s>>

BoolV(b) == <<"bool", b>>

IntV(n) == <<"int", n>>

Float64V(f) == <<"float64", f>>

EmptyMap == [k \in {} |-> Nil]

\* m[k] = v of Go: insert or overwrite.
MapPut(m, k, v) == [x \in (DOMAIN m) \cup {k} |-> IF x = k THEN v ELSE m[x]]

\* All orders in which the keys S of a map can be visited.
Orders(S) ==
    {o \in [1..Cardinality(S) -> S] : \A i, j \in DOMAIN o : i # j => o[i] # o[j]}

Digits == {"0", "1", "2", "3", "4", "5", "6", "7", "8", "9"}

DigitVal(c) ==
    CASE c = "0" -> 0 [] c = "1" -> 1 [] c = "2" -> 2 [] c = "3" -> 3 [] c = "4" -> 4
      [] c = "5" -> 5 [] c = "6" -> 6 [] c = "7" -> 7 [] c = "8" -> 8 [] c = "9" -> 9

AllDigits(s) == \A i \in DOMAIN s : s[i] \in Digits

RECURSIVE DecVal(_)
\* The number a sequence of decimal digits denotes.
DecVal(s) ==
    IF s = <<>> THEN 0
    ELSE 10 * DecVal(SubSeq(s, 1, Len(s) - 1)) + DigitVal(s[Len(s)])

HasSign(s) == Len(s) > 0 /\ s[1] \in {"+", "-"}

Unsigned(s) == IF HasSign(s) THEN Tail(s) ELSE s

(***************************************************************************)
(* strconv, as far as the engine uses it.  The texts of the model are      *)
(* short, so a parsed integer always fits in 64 bits and the out-of-range  *)
(* error of Atoi cannot occur.                                             *)
(***************************************************************************)
\* strconv.Atoi: an optional sign, then one or more decimal digits, nothing else.
AtoiOK(s) == Unsigned(s) # <<>> /\ AllDigits(Unsigned(s))

AtoiVal(s) ==
    IF HasSign(s) /\ s[1] = "-" THEN 0 - DecVal(Unsigned(s)) ELSE DecVal(Unsigned(s))

\* strconv.ParseBool: exactly these twelve literals.
BoolTrueTexts ==
    {<<"1">>, <<"t">>, <<"T">>, <<"T", "R", "U", "E">>, <<"t", "r", "u", "e">>,
     <<"T", "r", "u", "e">>}

BoolFalseTexts ==
    {<<"0">>, <<"f">>, <<"F">>, <<"F", "A", "L", "S", "E">>, <<"f", "a", "l", "s", "e">>,
     <<"F", "a", "l", "s", "e">>}

\* ParseBoolOK as it would be if more spellings were taken.
ParseBoolLoose(s) ==
    s \in BoolTrueTexts \cup BoolFalseTexts
            \cup {<<"t", "R", "U", "E">>, <<"y", "e", "s">>, <<"t", "r", "u", "e", " ">>}

ParseBoolOK(s) == s \in BoolTrueTexts \cup BoolFalseTexts

ParseBoolVal(s) == s \in BoolTrueTexts

LowerChar(c) ==
    CASE c = "I" -> "i" [] c = "N" -> "n" [] c = "F" -> "f" [] c = "A" -> "a"
      [] c = "T" -> "t" [] c = "Y" -> "y" [] c = "E" -> "e" [] OTHER -> c

Lower(s) == [i \in DOMAIN s |-> LowerChar(s[i])]

\* Index of the first element of s that is in S, 0 when there is none.
FirstIdx(s, S) ==
    IF \E i \in DOMAIN s : s[i] \in S
    THEN CHOOSE i \in DOMAIN s : s[i] \in S /\ \A j \in 1..(i - 1) : s[j] \notin S
    ELSE 0

\* strconv's special(): a possibly signed "inf" or "infinity", an unsigned "nan",
\* in any letter case.
FloatSpecialOK(s) ==
    \/ Lower(Unsigned(s)) \in {<<"i", "n", "f">>, <<"i", "n", "f", "i", "n", "i", "t", "y">>}
    \/ Lower(s) = <<"n", "a", "n">>

FloatMantissa(s) ==
    LET b == Unsigned(s)
        e == FirstIdx(b, {"e", "E"})
    IN  IF e = 0 THEN b ELSE SubSeq(b, 1, e - 1)

FloatExponent(s) ==
    LET b == Unsigned(s)
        e == FirstIdx(b, {"e", "E"})
    IN  IF e = 0 THEN <<>> ELSE SubSeq(b, e + 1, Len(b))

FloatHasExponent(s) == FirstIdx(Unsigned(s), {"e", "E"}) # 0

\* The digits of a mantissa, its decimal point dropped.
MantissaDigits(m) == SelectSeq(m, LAMBDA c : c # ".")

\* The number of digits after the decimal point of a mantissa.
FractionLen(m) == IF FirstIdx(m, {"."}) = 0 THEN 0 ELSE Len(m) - FirstIdx(m, {"."})

\* strconv's readFloat for a decimal number: digits with at most one point and at
\* least one digit, then optionally e or E, an optional sign and one or more digits.
\* (A hexadecimal mantissa needs a p exponent and digit separators need "_"; no
\* text of the model holds either character.)
FloatDecimalOK(s) ==
    LET m == FloatMantissa(s)
    IN  /\ Len(m) - Len(MantissaDigits(m)) <= 1
        /\ MantissaDigits(m) # <<>>
        /\ AllDigits(MantissaDigits(m))
        /\ FloatHasExponent(s) => AtoiOK(FloatExponent(s))

RECURSIVE NumDigits(_)
\* The number of decimal digits of a natural number.
NumDigits(n) == IF n < 10 THEN 1 ELSE 1 + NumDigits(n \div 10)

\* The largest decimal exponent of a finite float64 (1.797...e308).
MaxFloatExp == 308

\* A well-formed decimal number is within float64's range: beyond it ParseFloat
\* returns an infinity together with a range error.  (No text of the model lies
\* in the last decade, between 1.797...e308 and 1e309; a number too small for
\* float64 is returned as zero, without an error.)
FloatInRange(s) ==
    LET m == FloatMantissa(s)
        d == DecVal(MantissaDigits(m))
        x == IF FloatHasExponent(s) THEN AtoiVal(FloatExponent(s)) ELSE 0
    IN  d = 0 \/ NumDigits(d) - 1 + x - FractionLen(m) <= MaxFloatExp

\* strconv.ParseFloat(s, 64) succeeds.
ParseFloatOK(s) == FloatSpecialOK(s) \/ (FloatDecimalOK(s) /\ FloatInRange(s))

RECURSIVE Normalize(_, _)
\* mantissa * 10^exponent with the mantissa's trailing zeros moved to the exponent.
Normalize(m, e) ==
    IF m = 0 THEN <<"num", 0, 0>>
    ELSE IF m % 10 = 0 THEN Normalize(m \div 10, e + 1)
    ELSE <<"num", m, e>>

\* The float64 ParseFloat returns, as a decimal mantissa and exponent (the texts of
\* the model are too short for rounding to merge two of them).
ParseFloatVal(s) ==
    IF FloatSpecialOK(s)
    THEN IF Lower(s) = <<"n", "a", "n">> THEN <<"nan", 0, 0>>
         ELSE <<"inf", IF HasSign(s) /\ s[1] = "-" THEN 0 - 1 ELSE 1, 0>>
    ELSE LET m == FloatMantissa(s)
             d == DecVal(MantissaDigits(m))
             x == IF FloatHasExponent(s) THEN AtoiVal(FloatExponent(s)) ELSE 0
         IN  Normalize(IF HasSign(s) /\ s[1] = "-" THEN 0 - d ELSE d, x - FractionLen(m))

(***************************************************************************)
(* Errors.  A Go error is a tuple whose first element names its kind; the  *)
(* nil error is NoErr.                                                     *)
(***************************************************************************)
NoErr == <<"nil">>

(***************************************************************************)
(* validateParameterType and convertArgument.                              *)
(***************************************************************************)
\* The dynamic types the "int" case lists.
IntKinds == {"int", "int32", "int64"}

\* The dynamic types the "float" case lists.
FloatKinds == {"float32", "float64"}

\* validateParameterType as it would be if the "int" and "float" cases took any
\* text without parsing it.
validateParameterTypeAnyText(param, value) ==
    CASE param.Type = "string" ->
           IF Kind(value) = "string" THEN NoErr ELSE <<"expected", "string", Kind(value)>>
      [] param.Type = "bool" ->
           IF Kind(value) = "bool" THEN NoErr ELSE <<"expected", "bool", Kind(value)>>
      [] param.Type = "int" ->
           IF Kind(value) \in IntKinds \cup {"string"} THEN NoErr
           ELSE <<"expected", "int", Kind(value)>>
      [] param.Type = "float" ->
           IF Kind(value) \in FloatKinds \cup {"string"} THEN NoErr
           ELSE <<"expected", "float", Kind(value)>>
      [] OTHER -> <<"unsupported parameter type", param.Type>>

\* validateParameterType as it would be if the "bool" case took a text that
\* parses as a boolean, the way the "int" and "float" cases take numeric text.
validateParameterTypeBoolText(param, value) ==
    CASE param.Type = "string" ->
           IF Kind(value) = "string" THEN NoErr ELSE <<"expected", "string", Kind(value)>>
      [] param.Type = "bool" ->
           IF Kind(value) = "bool" THEN NoErr
           ELSE IF Kind(value) = "string"
                THEN IF ParseBoolOK(Payload(value)) THEN NoErr
                     ELSE <<"unparseable string", "bool", Payload(value)>>
                ELSE <<"expected", "bool", Kind(value)>>
      [] param.Type = "int" ->
           IF Kind(value) \in IntKinds THEN NoErr
           ELSE IF Kind(value) = "string"
                THEN IF AtoiOK(Payload(value)) THEN NoErr
                     ELSE <<"unparseable string", "int", Payload(value)>>
                ELSE <<"expected", "int", Kind(value)>>
      [] param.Type = "float" ->
           IF Kind(value) \in FloatKinds THEN NoErr
           ELSE IF Kind(value) = "string"
                THEN IF ParseFloatOK(Payload(value)) THEN NoErr
                     ELSE <<"unparseable string", "float", Payload(value)>>
                ELSE <<"expected", "float", Kind(value)>>
      [] OTHER -> <<"unsupported parameter type", param.Type>>

validateParameterType(param, value) ==
    CASE param.Type = "string" ->
           IF Kind(value) = "string" THEN NoErr ELSE <<"expected", "string", Kind(value)>>
      [] param.Type = "bool" ->
           IF Kind(value) = "bool" THEN NoErr ELSE <<"expected", "bool", Kind(value)>>
      [] param.Type = "int" ->
           IF Kind(value) \in IntKinds THEN NoErr
           ELSE IF Kind(value) = "string"
                THEN IF AtoiOK(Payload(value)) THEN NoErr
                     ELSE <<"unparseable string", "int", Payload(value)>>
                ELSE <<"expected", "int", Kind(value)>>
      [] param.Type = "float" ->
           IF Kind(value) \in FloatKinds THEN NoErr
           ELSE IF Kind(value) = "string"
                THEN IF ParseFloatOK(Payload(value)) THEN NoErr
                     ELSE <<"unparseable string", "float", Payload(value)>>
                ELSE <<"expected", "float", Kind(value)>>
      [] OTHER -> <<"unsupported parameter type", param.Type>>

\* convertArgument as it would be if a type it does not know were passed through
\* as a string.
convertArgumentDefaultString(arg, paramType) ==
    CASE paramType = "bool" ->
           IF ParseBoolOK(arg) THEN [val |-> BoolV(ParseBoolVal(arg)), err |-> NoErr]
           ELSE [val |-> BoolV(FALSE), err |-> <<"strconv.ParseBool", arg>>]
      [] paramType = "int" ->
           IF AtoiOK(arg) THEN [val |-> IntV(AtoiVal(arg)), err |-> NoErr]
           ELSE [val |-> IntV(0), err |-> <<"strconv.Atoi", arg>>]
      [] paramType = "float" ->
           IF ParseFloatOK(arg) THEN [val |-> Float64V(ParseFloatVal(arg)), err |-> NoErr]
           ELSE [val |-> Float64V(<<"num", 0, 0>>), err |-> <<"strconv.ParseFloat", arg>>]
      [] OTHER -> [val |-> StrV(arg), err |-> NoErr]

\* convertArgument as it would be if it read every number as a float64.
convertArgumentIntAsFloat(arg, paramType) ==
    CASE paramType = "string" -> [val |-> StrV(arg), err |-> NoErr]
      [] paramType = "bool" ->
           IF ParseBoolOK(arg) THEN [val |-> BoolV(ParseBoolVal(arg)), err |-> NoErr]
           ELSE [val |-> BoolV(FALSE), err |-> <<"strconv.ParseBool", arg>>]
      [] paramType = "int" ->
           IF AtoiOK(arg) THEN [val |-> Float64V(ParseFloatVal(arg)), err |-> NoErr]
           ELSE [val |-> IntV(0), err |-> <<"strconv.Atoi", arg>>]
      [] paramType = "float" ->
           IF ParseFloatOK(arg) THEN [val |-> Float64V(ParseFloatVal(arg)), err |-> NoErr]
           ELSE [val |-> Float64V(<<"num", 0, 0>>), err |-> <<"strconv.ParseFloat", arg>>]
      [] OTHER -> [val |-> Nil, err |-> <<"unsupported parameter type", paramType>>]

\* convertArgument's two results: the converted value and the error.
convertArgument(arg, paramType) ==
    CASE paramType = "string" -> [val |-> StrV(arg), err |-> NoErr]
      [] paramType = "bool" ->
           IF ParseBoolOK(arg) THEN [val |-> BoolV(ParseBoolVal(arg)), err |-> NoErr]
           ELSE [val |-> BoolV(FALSE), err |-> <<"strconv.ParseBool", arg>>]
      [] paramType = "int" ->
           IF AtoiOK(arg) THEN [val |-> IntV(AtoiVal(arg)), err |-> NoErr]
           ELSE [val |-> IntV(0), err |-> <<"strconv.Atoi", arg>>]
      [] paramType = "float" ->
           IF ParseFloatOK(arg) THEN [val |-> Float64V(ParseFloatVal(arg)), err |-> NoErr]
           ELSE [val |-> Float64V(<<"num", 0, 0>>), err |-> <<"strconv.ParseFloat", arg>>]
      [] OTHER -> [val |-> Nil, err |-> <<"unsupported parameter type", paramType>>]

(***************************************************************************)
(* validateContext.                                                        *)
(***************************************************************************)
\* Index of the first declared parameter called name, 0 when there is none
\* (the inner loop of validateContext).
FindParam(parameters, name) ==
    IF \E i \in DOMAIN parameters : parameters[i].Name = name
    THEN CHOOSE i \in DOMAIN parameters :
            /\ parameters[i].Name = name
            /\ \A j \in 1..(i - 1) : parameters[j].Name # name
    ELSE 0

\* The first loop of validateContext: the first required parameter, in declaration
\* order, without an entry in the map.
FirstMissingRequired(parameters, params) ==
    LET missing == {i \in DOMAIN parameters :
                       parameters[i].Required /\ parameters[i].Name \notin DOMAIN params}
    IN  IF missing = {} THEN 0
        ELSE CHOOSE i \in missing : \A j \in missing : i <= j

\* CheckEntry as it would be if a key without a declaration were skipped.
CheckEntrySkipUnknown(parameters, params, paramName) ==
    LET i == FindParam(parameters, paramName)
    IN  IF i = 0 THEN NoErr
        ELSE LET e == validateParameterType(parameters[i], params[paramName])
             IN  IF e = NoErr THEN NoErr ELSE <<"parameter", paramName, e>>

\* The body of the second loop for one key of the map.
CheckEntry(parameters, params, paramName) ==
    LET i == FindParam(parameters, paramName)
    IN  IF i = 0 THEN <<"unknown parameter", paramName>>
        ELSE LET e == validateParameterType(parameters[i], params[paramName])
             IN  IF e = NoErr THEN NoErr ELSE <<"parameter", paramName, e>>

RECURSIVE CheckEntries(_, _, _)
\* The second loop: the keys in the order the runtime yields them, stopping at the
\* first error.
CheckEntries(parameters, params, order) ==
    IF order = <<>> THEN NoErr
    ELSE LET e == CheckEntry(parameters, params, Head(order))
         IN  IF e # NoErr THEN e ELSE CheckEntries(parameters, params, Tail(order))

\* validateContext(ctx), order being the iteration order of ctx.Parameters.
validateContext(c, order) ==
    IF c.CommandNil THEN <<"command is nil">>
    ELSE IF c.ParametersNil THEN <<"parameters map is nil">>
    ELSE LET m == FirstMissingRequired(c.Command.Parameters, c.Parameters)
         IN  IF m # 0
             THEN <<"required parameter is missing", c.Command.Parameters[m].Name>>
             ELSE CheckEntries(c.Command.Parameters, c.Parameters, order)

(***************************************************************************)
(* ParseParameters.                                                        *)
(***************************************************************************)
\* Index of the first declared parameter whose Flag is flagName or "--"+flagName,
\* 0 when there is none (the inner loop of the flag pass).
FlagParam(parameters, flagName) ==
    LET hit(i) == \/ parameters[i].Flag = flagName
                  \/ parameters[i].Flag = <<"-", "-">> \o flagName
    IN  IF \E i \in DOMAIN parameters : hit(i)
        THEN CHOOSE i \in DOMAIN parameters : hit(i) /\ \A j \in 1..(i - 1) : ~hit(j)
        ELSE 0

\* StoreFlag as it would be if a flag that names no parameter were kept under
\* its own name.
StoreFlagKeepsUnknown(parameters, flagMap, params, flagName) ==
    LET i == FlagParam(parameters, flagName)
    IN  IF i = 0 THEN MapPut(params, flagName[Len(flagName)], flagMap[flagName])
        ELSE MapPut(params, parameters[i].Name, flagMap[flagName])

\* One iteration of the flag pass.
StoreFlag(parameters, flagMap, params, flagName) ==
    LET i == FlagParam(parameters, flagName)
    IN  IF i = 0 THEN params ELSE MapPut(params, parameters[i].Name, flagMap[flagName])

RECURSIVE ProcessFlags(_, _, _, _)
\* The flag pass: the flag map's entries in the order the runtime yields them.
ProcessFlags(parameters, flagMap, order, params) ==
    IF order = <<>> THEN params
    ELSE ProcessFlags(parameters, flagMap, Tail(order),
                      StoreFlag(parameters, flagMap, params, Head(order)))

\* What ParseParameters returns: the map (nil on failure) and the error.
Failure(e) == [params |-> EmptyMap, isNil |-> TRUE, err |-> e]

Success(params) == [params |-> params, isNil |-> FALSE, err |-> NoErr]

RECURSIVE ProcessArgsByPosition(_, _, _, _, _)
\* ProcessArgs as it would be if a parameter set by a flag still used up its
\* position among the arguments.
ProcessArgsByPosition(parameters, argv, i, argIndex, params) ==
    IF i > Len(parameters) THEN Success(params)
    ELSE LET param == parameters[i]
         IN  IF param.Name \in DOMAIN params
             THEN ProcessArgsByPosition(parameters, argv, i + 1, argIndex + 1, params)
             ELSE IF argIndex < Len(argv)
             THEN LET c == convertArgument(argv[argIndex + 1], param.Type)
                  IN  IF c.err # NoErr THEN Failure(<<"parameter", param.Name, c.err>>)
                      ELSE ProcessArgsByPosition(parameters, argv, i + 1, argIndex + 1,
                                                 MapPut(params, param.Name, c.val))
             ELSE IF param.Required
             THEN Failure(<<"required parameter not provided", param.Name>>)
             ELSE IF param.Default # Nil
             THEN ProcessArgsByPosition(parameters, argv, i + 1, argIndex,
                                        MapPut(params, param.Name, param.Default))
             ELSE ProcessArgsByPosition(parameters, argv, i + 1, argIndex, params)

RECURSIVE ProcessArgsNoSkip(_, _, _, _, _)
\* ProcessArgs as it would be without the test that skips the parameters set by
\* flags: a positional argument overwrites the flag's value.
ProcessArgsNoSkip(parameters, argv, i, argIndex, params) ==
    IF i > Len(parameters) THEN Success(params)
    ELSE LET param == parameters[i]
         IN  IF argIndex < Len(argv)
             THEN LET c == convertArgument(argv[argIndex + 1], param.Type)
                  IN  IF c.err # NoErr THEN Failure(<<"parameter", param.Name, c.err>>)
                      ELSE ProcessArgsNoSkip(parameters, argv, i + 1, argIndex + 1,
                                             MapPut(params, param.Name, c.val))
             ELSE IF param.Name \in DOMAIN params
             THEN ProcessArgsNoSkip(parameters, argv, i + 1, argIndex, params)
             ELSE IF param.Required
             THEN Failure(<<"required parameter not provided", param.Name>>)
             ELSE IF param.Default # Nil
             THEN ProcessArgsNoSkip(parameters, argv, i + 1, argIndex,
                                    MapPut(params, param.Name, param.Default))
             ELSE ProcessArgsNoSkip(parameters, argv, i + 1, argIndex, params)

RECURSIVE ProcessArgsDefaultFirst(_, _, _, _, _)
\* ProcessArgs as it would be with the default case before the required case: a
\* required parameter that declares a default falls back to it.
ProcessArgsDefaultFirst(parameters, argv, i, argIndex, params) ==
    IF i > Len(parameters) THEN Success(params)
    ELSE LET param == parameters[i]
         IN  IF param.Name \in DOMAIN params
             THEN ProcessArgsDefaultFirst(parameters, argv, i + 1, argIndex, params)
             ELSE IF argIndex < Len(argv)
             THEN LET c == convertArgument(argv[argIndex + 1], param.Type)
                  IN  IF c.err # NoErr THEN Failure(<<"parameter", param.Name, c.err>>)
                      ELSE ProcessArgsDefaultFirst(parameters, argv, i + 1, argIndex + 1,
                                                   MapPut(params, param.Name, c.val))
             ELSE IF param.Default # Nil
             THEN ProcessArgsDefaultFirst(parameters, argv, i + 1, argIndex,
                                          MapPut(params, param.Name, param.Default))
             ELSE IF param.Required
             THEN Failure(<<"required parameter not provided", param.Name>>)
             ELSE ProcessArgsDefaultFirst(parameters, argv, i + 1, argIndex, params)

RECURSIVE ProcessArgsDefaultOverArg(_, _, _, _, _)
\* ProcessArgs as it would be if a declared default were preferred to a
\* positional argument.
ProcessArgsDefaultOverArg(parameters, argv, i, argIndex, params) ==
    IF i > Len(parameters) THEN Success(params)
    ELSE LET param == parameters[i]
         IN  IF param.Name \in DOMAIN params
             THEN ProcessArgsDefaultOverArg(parameters, argv, i + 1, argIndex, params)
             ELSE IF ~param.Required /\ param.Default # Nil
             THEN ProcessArgsDefaultOverArg(parameters, argv, i + 1, argIndex,
                                            MapPut(params, param.Name, param.Default))
             ELSE IF argIndex < Len(argv)
             THEN LET c == convertArgument(argv[argIndex + 1], param.Type)
                  IN  IF c.err # NoErr THEN Failure(<<"parameter", param.Name, c.err>>)
                      ELSE ProcessArgsDefaultOverArg(parameters, argv, i + 1, argIndex + 1,
                                                     MapPut(params, param.Name, c.val))
             ELSE IF param.Required
             THEN Failure(<<"required parameter not provided", param.Name>>)
             ELSE ProcessArgsDefaultOverArg(parameters, argv, i + 1, argIndex, params)

RECURSIVE ProcessArgs(_, _, _, _, _)
\* The positional pass from the i-th declared parameter on, argIndex arguments
\* being consumed so far (argIndex counts from 0 as in the code).
ProcessArgs(parameters, argv, i, argIndex, params) ==
    IF i > Len(parameters) THEN Success(params)
    ELSE LET param == parameters[i]
         IN  IF param.Name \in DOMAIN params
             THEN ProcessArgs(parameters, argv, i + 1, argIndex, params)
             ELSE IF argIndex < Len(argv)
             THEN LET c == convertArgument(argv[argIndex + 1], param.Type)
                  IN  IF c.err # NoErr THEN Failure(<<"parameter", param.Name, c.err>>)
                      ELSE ProcessArgs(parameters, argv, i + 1, argIndex + 1,
                                       MapPut(params, param.Name, c.val))
             ELSE IF param.Required
             THEN Failure(<<"required parameter not provided", param.Name>>)
             ELSE IF param.Default # Nil
             THEN ProcessArgs(parameters, argv, i + 1, argIndex,
                              MapPut(params, param.Name, param.Default))
             ELSE ProcessArgs(parameters, argv, i + 1, argIndex, params)

\* ParseParameters(cmd, args, flags), order being the iteration order of flags.
ParseParameters(command, argv, flagMap, order) ==
    ProcessArgs(command.Parameters, argv, 1, 0,
                ProcessFlags(command.Parameters, flagMap, order, EmptyMap))

(***************************************************************************)
(* renderTemplate.  text/template parses the template text; the model      *)
(* starts from the outcome of that parse: whether the text is well formed  *)
(* (ok) and the nodes it parses to:                                        *)
(*   <<"text", t>>           literal text t                                *)
(*   <<"base">>              {{.base_command}}                             *)
(*   <<"param", n>>          {{.params.n}}                                 *)
(*   <<"if", n, t1, t2>>     {{if .params.n}}t1{{else}}t2{{end}}           *)
(*   <<"field", n, f>>       {{.params.n.f}}                               *)
(*   <<"ifn", n, ns1, ns2>>  the same conditional, its branches being node *)
(*                           lists ns1 and ns2                             *)
(***************************************************************************)
Whitespace == {" ", "\t", "\n", "\r"}

RECURSIVE NatText(_)
\* The decimal digits of a natural number.
NatText(n) ==
    LET d == CHOOSE c \in Digits : DigitVal(c) = n % 10
    IN  IF n < 10 THEN <<d>> ELSE NatText(n \div 10) \o <<d>>

\* How text/template prints a value.
Stringify(v) ==
    CASE Kind(v) = "string" -> Payload(v)
      [] Kind(v) = "bool" ->
           IF Payload(v) THEN <<"t", "r", "u", "e">> ELSE <<"f", "a", "l", "s", "e">>
      [] Kind(v) \in IntKinds ->
           IF Payload(v) < 0 THEN <<"-">> \o NatText(0 - Payload(v))
           ELSE NatText(Payload(v))
      [] OTHER -> <<"<no value>">>

\* Truth as it would be if the value of a missing key counted as true.
TruthOfMissing(v) ==
    CASE Kind(v) = "string" -> Payload(v) # <<>>
      [] Kind(v) = "bool" -> Payload(v)
      [] Kind(v) \in IntKinds -> Payload(v) # 0
      [] OTHER -> TRUE

\* text/template's truth of a value: false for the zero value of its type.
Truth(v) ==
    CASE Kind(v) = "string" -> Payload(v) # <<>>
      [] Kind(v) = "bool" -> Payload(v)
      [] Kind(v) \in IntKinds -> Payload(v) # 0
      [] OTHER -> FALSE

\* Indexing the params map in a template: the nil interface for a missing key.
Lookup(params, n) == IF n \in DOMAIN params THEN params[n] ELSE Nil

RECURSIVE ExecNodes(_, _, _)

\* ExecNode as it would be if the else branch of a conditional were dropped.
ExecNodeNoElse(node, baseCommand, params) ==
    CASE node[1] = "text" -> [out |-> node[2], err |-> NoErr]
      [] node[1] = "base" -> [out |-> baseCommand, err |-> NoErr]
      [] node[1] = "param" -> [out |-> Stringify(Lookup(params, node[2])), err |-> NoErr]
      [] node[1] = "if" ->
           [out |-> IF Truth(Lookup(params, node[2])) THEN node[3] ELSE <<>>,
            err |-> NoErr]
      [] node[1] = "field" ->
           [out |-> <<>>, err |-> <<"can't evaluate field", node[3], node[2]>>]
      [] node[1] = "ifn" ->
           ExecNodes(IF Truth(Lookup(params, node[2])) THEN node[3] ELSE <<>>,
                     baseCommand, params)

\* What one node writes, and the error it stops the execution with.
ExecNode(node, baseCommand, params) ==
    CASE node[1] = "text" -> [out |-> node[2], err |-> NoErr]
      [] node[1] = "base" -> [out |-> baseCommand, err |-> NoErr]
      [] node[1] = "param" -> [out |-> Stringify(Lookup(params, node[2])), err |-> NoErr]
      [] node[1] = "if" ->
           [out |-> IF Truth(Lookup(params, node[2])) THEN node[3] ELSE node[4],
            err |-> NoErr]
      [] node[1] = "field" ->
           [out |-> <<>>, err |-> <<"can't evaluate field", node[3], node[2]>>]
      [] node[1] = "ifn" ->
           ExecNodes(IF Truth(Lookup(params, node[2])) THEN node[3] ELSE node[4],
                     baseCommand, params)

\* tmpl.Execute: the nodes in order into the buffer, stopping at the first error.
ExecNodes(nodes, baseCommand, params) ==
    IF nodes = <<>> THEN [out |-> <<>>, err |-> NoErr]
    ELSE LET h == ExecNode(Head(nodes), baseCommand, params)
         IN  IF h.err # NoErr THEN h
             ELSE LET r == ExecNodes(Tail(nodes), baseCommand, params)
                  IN  [out |-> h.out \o r.out, err |-> r.err]

RECURSIVE TrimLeft(_)
TrimLeft(s) == IF s # <<>> /\ Head(s) \in Whitespace THEN TrimLeft(Tail(s)) ELSE s

RECURSIVE TrimRight(_)
TrimRight(s) ==
    IF s # <<>> /\ s[Len(s)] \in Whitespace THEN TrimRight(SubSeq(s, 1, Len(s) - 1)) ELSE s

RECURSIVE Squeeze(_)
\* s with every run of whitespace replaced by one space.
Squeeze(s) ==
    IF s = <<>> THEN <<>>
    ELSE IF Head(s) \in Whitespace
    THEN <<" ">> \o Squeeze(TrimLeft(s))
    ELSE <<Head(s)>> \o Squeeze(Tail(s))

\* TrimSpace as it would be if the engine also normalised the inner spacing.
TrimAndSqueeze(s) == Squeeze(TrimRight(TrimLeft(s)))

\* strings.TrimSpace
TrimSpace(s) == TrimRight(TrimLeft(s))

\* renderTemplate's two results: the rendered text and the error.
renderTemplate(command, template, params) ==
    IF ~template.ok THEN [text |-> <<>>, err |-> <<"failed to parse template">>]
    ELSE LET r == ExecNodes(template.nodes, command.BaseCommand, params)
         IN  IF r.err # NoErr
             THEN [text |-> <<>>, err |-> <<"failed to execute template", r.err>>]
             ELSE [text |-> TrimSpace(r.out), err |-> NoErr]

(***************************************************************************)
(* The inputs of Execute tried by the model.                               *)
(***************************************************************************)
Param(name, type, required, flag, default) ==
    [Name |-> name, Type |-> type, Required |-> required, Flag |-> flag,
     Default |-> default]

\* The template of the engine's tests:
\* {{.base_command}}{{if .params.verbose}} -v{{end}} '{{.params.message}}'
EchoTemplate ==
    [ok |-> TRUE,
     nodes |-> << <<"base">>, <<"if", "verbose", <<" ", "-", "v">>, <<>> >>,
                  <<"text", <<" ", "'">> >>, <<"param", "message">>,
                  <<"text", <<"'">> >> >>]

\* A template text/template cannot parse, as in
\* TestEngine_renderTemplate_InvalidTemplate.
BrokenTemplate == [ok |-> FALSE, nodes |-> <<>>]

\* {{.base_command}} {{.params.count.unit}} : parses, and fails when executed.
FieldTemplate ==
    [ok |-> TRUE,
     nodes |-> << <<"base">>, <<"text", <<" ">> >>, <<"field", "count", "unit">> >>]

\* {{.base_command}} {{.params.count}}
CountTemplate ==
    [ok |-> TRUE, nodes |-> << <<"base">>, <<"text", <<" ">> >>, <<"param", "count">> >>]

\* The command of TestEngine_validateContext and TestEngine_renderTemplate.
EchoCommand ==
    [Name |-> "test", BaseCommand |-> <<"echo">>,
     Parameters |-> << Param("message", "string", TRUE, <<>>, Nil),
                       Param("verbose", "bool", FALSE, <<"-", "-", "verbose">>, Nil) >>,
     Platforms |-> [linux |-> EchoTemplate, darwin |-> BrokenTemplate]]

HeadCommand ==
    [Name |-> "head", BaseCommand |-> <<"head">>,
     Parameters |-> << Param("count", "int", FALSE, <<>>, IntV(1)) >>,
     Platforms |-> [linux |-> CountTemplate, darwin |-> FieldTemplate]]

\* {{.base_command}} {{if .params.in_place}}-i{{end}} '{{.params.expression}}' {{.params.file}}
ReplaceLinux ==
    [ok |-> TRUE,
     nodes |-> << <<"base">>, <<"text", <<" ">> >>,
                  <<"if", "in_place", <<"-", "i">>, <<>> >>,
                  <<"text", <<" ", "'">> >>, <<"param", "expression">>,
                  <<"text", <<"'", " ">> >>, <<"param", "file">> >>]

\* {{.base_command}} {{if .params.in_place}}-i ''{{end}} '{{.params.expression}}' {{.params.file}}
ReplaceDarwin ==
    [ok |-> TRUE,
     nodes |-> << <<"base">>, <<"text", <<" ">> >>,
                  <<"if", "in_place", <<"-", "i", " ", "'", "'">>, <<>> >>,
                  <<"text", <<" ", "'">> >>, <<"param", "expression">>,
                  <<"text", <<"'", " ">> >>, <<"param", "file">> >>]

\* powershell -Command "(Get-Content {{.params.file}}) -replace '{{.params.expression}}' |
\* {{if .params.in_place}}Set-Content {{.params.file}}{{else}}Write-Output{{end}}"
ReplaceWindows ==
    [ok |-> TRUE,
     nodes |-> << <<"text", <<"powershell", " ", "-Command", " ", "\"", "(",
                              "Get-Content", " ">> >>,
                  <<"param", "file">>,
                  <<"text", <<")", " ", "-replace", " ", "'">> >>,
                  <<"param", "expression">>,
                  <<"text", <<"'", " ", "|", " ">> >>,
                  <<"ifn", "in_place",
                    << <<"text", <<"Set-Content", " ">> >>, <<"param", "file">> >>,
                    << <<"text", <<"Write-Output">> >> >> >>,
                  <<"text", <<"\"">> >> >>]

\* The embedded command replace-in-file.
ReplaceInFile ==
    [Name |-> "replace-in-file", BaseCommand |-> <<"sed">>,
     Parameters |-> << Param("expression", "string", TRUE, <<>>, Nil),
                       Param("file", "string", TRUE, <<>>, Nil),
                       Param("in-place", "bool", FALSE, <<"-", "-", "in-place">>, Nil) >>,
     Platforms |-> [linux |-> ReplaceLinux, darwin |-> ReplaceDarwin,
                    windows |-> ReplaceWindows]]

\* {{.base_command}} {{.params.path}} {{if .params.type}}-type {{.params.type}}{{end}}
\* {{if .params.name}}-name '{{.params.name}}'{{end}}
\* {{if .params.size}}-size {{.params.size}}{{end}}
FindUnix ==
    [ok |-> TRUE,
     nodes |-> << <<"base">>, <<"text", <<" ">> >>, <<"param", "path">>,
                  <<"text", <<" ">> >>,
                  <<"ifn", "type",
                    << <<"text", <<"-type", " ">> >>, <<"param", "type">> >>, <<>> >>,
                  <<"text", <<" ">> >>,
                  <<"ifn", "name",
                    << <<"text", <<"-name", " ", "'">> >>, <<"param", "name">>,
                       <<"text", <<"'">> >> >>, <<>> >>,
                  <<"text", <<" ">> >>,
                  <<"ifn", "size",
                    << <<"text", <<"-size", " ">> >>, <<"param", "size">> >>, <<>> >> >>]

\* powershell -Command "Get-ChildItem -Path {{.params.path}}
\* {{if .params.name}}-Name '{{.params.name}}'{{end}} -Recurse"
FindWindows ==
    [ok |-> TRUE,
     nodes |-> << <<"text", <<"powershell", " ", "-Command", " ", "\"", "Get-ChildItem",
                              " ", "-Path", " ">> >>,
                  <<"param", "path">>, <<"text", <<" ">> >>,
                  <<"ifn", "name",
                    << <<"text", <<"-Name", " ", "'">> >>, <<"param", "name">>,
                       <<"text", <<"'">> >> >>, <<>> >>,
                  <<"text", <<" ", "-Recurse", "\"">> >> >>]

\* The embedded command find-files.
FindFiles ==
    [Name |-> "find-files", BaseCommand |-> <<"find">>,
     Parameters |-> << Param("path", "string", FALSE, <<>>, StrV(<<".">>)),
                       Param("name", "string", FALSE, <<"-", "-", "name">>, Nil),
                       Param("type", "string", FALSE, <<"-", "-", "type">>, Nil),
                       Param("size", "string", FALSE, <<"-", "-", "size">>, Nil) >>,
     Platforms |-> [linux |-> FindUnix, darwin |-> FindUnix, windows |-> FindWindows]]

ExecCommands == {EchoCommand, HeadCommand}

\* platform.SupportedPlatform, a string type.
PlatformNames == {"linux", "darwin", "windows"}

ParamKeys == {"message", "verbose", "count"}

ParamValues == {StrV(<<"h", "i">>), BoolV(TRUE), IntV(5)}

\* The parameter maps tried: every map from some of the keys to the values.
ParamMaps == UNION {[K -> ParamValues] : K \in SUBSET ParamKeys}

\* time.Duration values for a timeout: negative, zero and positive ones.
Durations == (0 - 1)..MaxTimeout

\* The statuses the child may exit with on its own.
ExitCodes == {0, 1, 3, 255}

Contexts ==
    {[CommandNil |-> cn, Command |-> c, Platform |-> p, ParametersNil |-> pn,
      Parameters |-> m, Timeout |-> d] :
        cn \in BOOLEAN, c \in ExecCommands, p \in PlatformNames, pn \in BOOLEAN,
        m \in ParamMaps, d \in Durations}

\* A nil command has no fields and a nil map no entries: one representative each.
WellFormed(c) ==
    /\ c.CommandNil => c.Command = EchoCommand
    /\ c.ParametersNil => c.Parameters = EmptyMap

(***************************************************************************)
(* Engine.Execute as a state machine.  An invocation is at                 *)
(*   "idle"      no invocation yet                                          *)
(*   "lookup"    validateContext passed, before the platform lookup        *)
(*   "render"    the template found, before renderTemplate                 *)
(*   "exec"      rendered, at the call of executeCommand                   *)
(*   "start"     executeCommand has made the context, at cmd.Run()         *)
(*   "wait"      inside cmd.Run(), the child started                       *)
(*   "classify"  cmd.Run() has returned                                    *)
(*   "returned"  Execute has returned outcome                              *)
(* cmd.Run blocks, so the child's exit and the passing of time interleave  *)
(* with the steps of executeCommand.  exec.CommandContext kills the child  *)
(* when the context is done before the child has completed on its own.     *)
(***************************************************************************)
NoTemplate == [ok |-> FALSE, nodes |-> <<>>]

\* The locals of an invocation before it has run anything.
Fresh ==
    /\ platformCmd' = NoTemplate
    /\ renderedCmd' = <<>>
    /\ timeout' = 0
    /\ armed' = FALSE
    /\ elapsed' = 0
    /\ ctxErr' = "nil"
    /\ proc' = "none"
    /\ exitStatus' = 0
    /\ hitRunning' = FALSE
    /\ spawned' = 0
    /\ runErr' = NoErr

\* Execute is called with a context and validates it (lines 67-71).
Execute ==
    /\ pc = "idle"
    /\ \E c \in Contexts :
         /\ WellFormed(c)
         /\ ctx' = c
         /\ ctxBefore' = c
         /\ \E order \in Orders(DOMAIN c.Parameters) :
              LET err == validateContext(c, order)
              IN  IF err # NoErr
                  THEN /\ outcome' = <<"invalid execution context", err>>
                       /\ stages' = << <<"validate", "failed">> >>
                       /\ pc' = "returned"
                  ELSE /\ outcome' = NoErr
                       /\ stages' = << <<"validate", "ok">> >>
                       /\ pc' = "lookup"
    /\ Fresh
    /\ UNCHANGED engine
    /\ UNCHANGED otherVars

\* LookupPlatform as it would be if the map's second result were not tested: a
\* missing platform yields the zero PlatformCommand, an empty template.
LookupPlatformUnchecked ==
    /\ pc = "lookup"
    /\ platformCmd' = IF ctx.Platform \in DOMAIN ctx.Command.Platforms
                      THEN ctx.Command.Platforms[ctx.Platform]
                      ELSE [ok |-> TRUE, nodes |-> <<>>]
    /\ stages' = Append(stages, <<"lookup", "ok">>)
    /\ pc' = "render"
    /\ UNCHANGED <<engine, ctx, ctxBefore, renderedCmd, timeout, armed, elapsed, ctxErr,
                   proc, exitStatus, hitRunning, spawned, runErr, outcome>>
    /\ UNCHANGED otherVars

\* The platform-specific template is looked up (lines 73-77).
LookupPlatform ==
    /\ pc = "lookup"
    /\ IF ctx.Platform \in DOMAIN ctx.Command.Platforms
       THEN /\ platformCmd' = ctx.Command.Platforms[ctx.Platform]
            /\ stages' = Append(stages, <<"lookup", "ok">>)
            /\ pc' = "render"
            /\ UNCHANGED outcome
       ELSE /\ outcome' = <<"not supported on platform", ctx.Command.Name, ctx.Platform>>
            /\ stages' = Append(stages, <<"lookup", "failed">>)
            /\ pc' = "returned"
            /\ UNCHANGED platformCmd
    /\ UNCHANGED <<engine, ctx, ctxBefore, renderedCmd, timeout, armed, elapsed, ctxErr,
                   proc, exitStatus, hitRunning, spawned, runErr>>
    /\ UNCHANGED otherVars

\* Render as it would be if the render error were not returned.
RenderKeepsGoing ==
    /\ pc = "render"
    /\ LET r == renderTemplate(ctx.Command, platformCmd, ctx.Parameters)
       IN  /\ renderedCmd' = r.text
           /\ stages' = Append(stages, <<"render", IF r.err # NoErr THEN "failed" ELSE "ok">>)
           /\ pc' = "exec"
           /\ UNCHANGED outcome
    /\ UNCHANGED <<engine, ctx, ctxBefore, platformCmd, timeout, armed, elapsed, ctxErr,
                   proc, exitStatus, hitRunning, spawned, runErr>>
    /\ UNCHANGED otherVars

\* The template is rendered (lines 79-83).
Render ==
    /\ pc = "render"
    /\ LET r == renderTemplate(ctx.Command, platformCmd, ctx.Parameters)
       IN  IF r.err # NoErr
           THEN /\ outcome' = <<"failed to render command template", r.err>>
                /\ stages' = Append(stages, <<"render", "failed">>)
                /\ pc' = "returned"
                /\ UNCHANGED renderedCmd
           ELSE /\ renderedCmd' = r.text
                /\ stages' = Append(stages, <<"render", "ok">>)
                /\ pc' = "exec"
                /\ UNCHANGED outcome
    /\ UNCHANGED <<engine, ctx, ctxBefore, platformCmd, timeout, armed, elapsed, ctxErr,
                   proc, exitStatus, hitRunning, spawned, runErr>>
    /\ UNCHANGED otherVars

\* EffectiveTimeout as it would be without the fallback to the engine's default.
TimeoutAsGiven(given, default) == given

\* The timeout executeCommand uses (lines 198-200).
EffectiveTimeout(given, default) == IF given = 0 THEN default ELSE given

\* CreateContext as it would be if the timeout settled were stored in the
\* ExecutionContext instead of the local.
CreateContextStoresTimeout ==
    /\ pc = "exec"
    /\ timeout' = EffectiveTimeout(ctx.Timeout, engine.timeout)
    /\ ctx' = [ctx EXCEPT !.Timeout = timeout']
    /\ armed' = TRUE
    /\ elapsed' = 0
    /\ ctxErr' = IF timeout' <= 0 THEN "DeadlineExceeded" ELSE "nil"
    /\ stages' = Append(stages, <<"run", "started">>)
    /\ pc' = "start"
    /\ UNCHANGED <<engine, ctxBefore, platformCmd, renderedCmd, proc, exitStatus,
                   hitRunning, spawned, runErr, outcome>>
    /\ UNCHANGED otherVars

\* executeCommand up to cmd.Run(): the timeout is settled and the context with its
\* deadline made (lines 196-219).  A deadline that is not in the future makes a
\* context that is done from the start.
CreateContext ==
    /\ pc = "exec"
    /\ timeout' = EffectiveTimeout(ctx.Timeout, engine.timeout)
    /\ armed' = TRUE
    /\ elapsed' = 0
    /\ ctxErr' = IF timeout' <= 0 THEN "DeadlineExceeded" ELSE "nil"
    /\ stages' = Append(stages, <<"run", "started">>)
    /\ pc' = "start"
    /\ UNCHANGED <<engine, ctx, ctxBefore, platformCmd, renderedCmd, proc, exitStatus,
                   hitRunning, spawned, runErr, outcome>>
    /\ UNCHANGED otherVars

\* cmd.Run() starts the shell (line 222): not at all when the context is already
\* done; otherwise the start fails (no shell to run) or the child runs.
Start ==
    /\ pc = "start"
    /\ \/ /\ ctxErr # "nil"
          /\ runErr' = <<"context deadline exceeded">>
          /\ pc' = "classify"
          /\ UNCHANGED <<proc, spawned>>
       \/ /\ ctxErr = "nil"
          /\ runErr' = <<"exec: start failed">>
          /\ pc' = "classify"
          /\ UNCHANGED <<proc, spawned>>
       \/ /\ ctxErr = "nil"
          /\ proc' = "running"
          /\ spawned' = spawned + 1
          /\ pc' = "wait"
          /\ UNCHANGED runErr
    /\ UNCHANGED <<engine, ctx, ctxBefore, stages, platformCmd, renderedCmd, timeout,
                   armed, elapsed, ctxErr, exitStatus, hitRunning, outcome>>
    /\ UNCHANGED otherVars

\* The child exits on its own.
ChildExits ==
    /\ proc = "running"
    /\ \E n \in ExitCodes : exitStatus' = n
    /\ proc' = "exited"
    /\ UNCHANGED <<engine, ctx, ctxBefore, pc, stages, platformCmd, renderedCmd, timeout,
                   armed, elapsed, ctxErr, hitRunning, spawned, runErr, outcome>>
    /\ UNCHANGED otherVars

\* A time unit passes while the context exists.  When the deadline is reached the
\* context is done, and a child still running is killed.
Tick ==
    /\ armed
    /\ elapsed < MaxTimeout
    /\ elapsed' = elapsed + 1
    /\ IF elapsed' >= timeout /\ ctxErr = "nil"
       THEN /\ ctxErr' = "DeadlineExceeded"
            /\ hitRunning' = (proc = "running")
            /\ proc' = IF proc = "running" THEN "killed" ELSE proc
       ELSE UNCHANGED <<ctxErr, hitRunning, proc>>
    /\ UNCHANGED <<engine, ctx, ctxBefore, pc, stages, platformCmd, renderedCmd, timeout,
                   armed, exitStatus, spawned, runErr, outcome>>
    /\ UNCHANGED otherVars

\* The errors cmd.Run() can return once the child is gone: an *exec.ExitError for a
\* child that was killed (ExitCode() is -1) or exited with a non-zero status; for
\* a child that exited with 0, nil, or the context's error when the context was
\* done by the time Run noticed the exit.
RunErrors(p, status, cerr) ==
    IF p = "killed" THEN {<<"ExitError", 0 - 1>>}
    ELSE IF status # 0 THEN {<<"ExitError", status>>}
    ELSE IF cerr # "nil" THEN {NoErr, <<"context deadline exceeded">>}
    ELSE {NoErr}

\* cmd.Run() returns (line 222).
Wait ==
    /\ pc = "wait"
    /\ proc \in {"exited", "killed"}
    /\ \E e \in RunErrors(proc, exitStatus, ctxErr) : runErr' = e
    /\ pc' = "classify"
    /\ UNCHANGED <<engine, ctx, ctxBefore, stages, platformCmd, renderedCmd, timeout,
                   armed, elapsed, ctxErr, proc, exitStatus, hitRunning, spawned, outcome>>
    /\ UNCHANGED otherVars

\* ClassifyError as it would be with the exit-error test before the deadline test.
ClassifyExitFirst(err, cerr, t, command) ==
    IF err # NoErr
    THEN IF err[1] = "ExitError" THEN <<"ExitErrorWithCode", err[2]>>
         ELSE IF cerr = "DeadlineExceeded" THEN <<"command timed out", t, command>>
         ELSE <<"command execution failed", err>>
    ELSE NoErr

\* ClassifyError as it would be if an error that is neither a timeout nor an exit
\* status were dropped.
ClassifyErrorExitOnly(err, cerr, t, command) ==
    IF err # NoErr
    THEN IF cerr = "DeadlineExceeded" THEN <<"command timed out", t, command>>
         ELSE IF err[1] = "ExitError" THEN <<"ExitErrorWithCode", err[2]>>
         ELSE NoErr
    ELSE NoErr

\* The error executeCommand returns for the error of cmd.Run() (lines 225-241).
ClassifyError(err, cerr, t, command) ==
    IF err # NoErr
    THEN IF cerr = "DeadlineExceeded" THEN <<"command timed out", t, command>>
         ELSE IF err[1] = "ExitError" THEN <<"ExitErrorWithCode", err[2]>>
         ELSE <<"command execution failed", err>>
    ELSE NoErr

\* Classify as it would be if a command that failed were run once more.
ClassifyRetries ==
    /\ pc = "classify"
    /\ IF runErr # NoErr /\ spawned <= 1
       THEN /\ pc' = "start"
            /\ runErr' = NoErr
            /\ UNCHANGED <<outcome, armed>>
       ELSE /\ outcome' = ClassifyError(runErr, ctxErr, timeout, renderedCmd)
            /\ armed' = FALSE
            /\ pc' = "returned"
            /\ UNCHANGED runErr
    /\ UNCHANGED <<engine, ctx, ctxBefore, stages, platformCmd, renderedCmd, timeout,
                   elapsed, ctxErr, proc, exitStatus, hitRunning, spawned>>
    /\ UNCHANGED otherVars

\* executeCommand classifies the error, cancels the context and returns; Execute
\* returns what it returned (lines 225-241, 204, 86).
Classify ==
    /\ pc = "classify"
    /\ outcome' = ClassifyError(runErr, ctxErr, timeout, renderedCmd)
    /\ armed' = FALSE
    /\ pc' = "returned"
    /\ UNCHANGED <<engine, ctx, ctxBefore, stages, platformCmd, renderedCmd, timeout,
                   elapsed, ctxErr, proc, exitStatus, hitRunning, spawned, runErr>>
    /\ UNCHANGED otherVars

\* The caller drops the context and the outcome of a finished invocation; the
\* engine is ready for the next one.
Discard ==
    /\ pc = "returned"
    /\ ctx' = [CommandNil |-> TRUE, Command |-> EchoCommand, Platform |-> "linux",
               ParametersNil |-> TRUE, Parameters |-> EmptyMap, Timeout |-> 0]
    /\ ctxBefore' = ctx'
    /\ pc' = "idle"
    /\ stages' = <<>>
    /\ outcome' = NoErr
    /\ Fresh
    /\ UNCHANGED engine
    /\ UNCHANGED otherVars

\* No verdict of validateContext on a returned map yet.
NotChecked == <<"not called">>

\* The goldfish process is still running: it has no exit status.
NotExited == 0 - 1

\* A nil *Config.
NilConfig == [isNil |-> TRUE, Commands |-> <<>>]

\* validateParameterType and convertArgument not called.
TypeIdle ==
    /\ typeDef = Param("p", "string", FALSE, <<>>, Nil)
    /\ typeValue = Nil
    /\ typeErr = NoErr
    /\ convArg = <<>>
    /\ convResult = [val |-> Nil, err |-> NoErr]
    /\ typeCalls = {}

\* renderTemplate not called.
TmplIdle ==
    /\ tmplCommand = EchoCommand
    /\ tmplText = NoTemplate
    /\ tmplParams = EmptyMap
    /\ tmplBuffer = <<>>
    /\ tmplResult = [text |-> <<>>, err |-> NoErr]
    /\ tmplCalled = FALSE

\* No concurrent invocations.
ConcIdle == inv = <<>>

ParseIdle ==
    /\ cmd = EchoCommand
    /\ args = <<>>
    /\ flags = EmptyMap
    /\ calls = 0
    /\ result = Success(EmptyMap)
    /\ prevResult = Success(EmptyMap)
    /\ checked = NotChecked

\* The goldfish process not started.
CliIdle ==
    /\ goos = "linux"
    /\ cliFlags = EmptyMap
    /\ appPc = "idle"
    /\ appErr = NoErr
    /\ exitCode = NotExited

\* MergeConfigs and Loader.validate not called.
CfgIdle ==
    /\ mBase = NilConfig
    /\ mOverride = NilConfig
    /\ mResult = NilConfig
    /\ mCalled = FALSE
    /\ vConfig = NilConfig
    /\ vErr = NoErr
    /\ vCalled = FALSE

ExecIdle ==
    /\ ctx = [CommandNil |-> TRUE, Command |-> EchoCommand, Platform |-> "linux",
              ParametersNil |-> TRUE, Parameters |-> EmptyMap, Timeout |-> 0]
    /\ ctxBefore = ctx
    /\ pc = "idle"
    /\ stages = <<>>
    /\ platformCmd = NoTemplate
    /\ renderedCmd = <<>>
    /\ timeout = 0
    /\ armed = FALSE
    /\ elapsed = 0
    /\ ctxErr = "nil"
    /\ proc = "none"
    /\ exitStatus = 0
    /\ hitRunning = FALSE
    /\ spawned = 0
    /\ runErr = NoErr
    /\ outcome = NoErr

\* NewEngine(timeout) (lines 58-63); no Execute invocation yet.
Init ==
    /\ engine \in {[timeout |-> d] : d \in Durations}
    /\ ExecIdle
    /\ ParseIdle
    /\ TypeIdle
    /\ TmplIdle
    /\ ConcIdle
    /\ CliIdle
    /\ CfgIdle

Next ==
    \/ Execute
    \/ LookupPlatform
    \/ Render
    \/ CreateContext
    \/ Start
    \/ ChildExits
    \/ Tick
    \/ Wait
    \/ Classify
    \/ Discard

Spec == Init /\ [][Next]_vars

(***************************************************************************)
(* Engine.ParseParameters on bounded inputs: the specification SpecParse   *)
(* draws a command, a list of positional arguments and a flag map, and     *)
(* calls ParseParameters on them, more than once.                          *)
(***************************************************************************)
\* The command of TestEngine_ParseParameters.
TestCommand ==
    [Name |-> "test", BaseCommand |-> <<"echo">>,
     Parameters |-> << Param("message", "string", TRUE, <<>>, Nil),
                       Param("count", "int", FALSE, <<>>, IntV(1)),
                       Param("verbose", "bool", FALSE, <<"-", "-", "verbose">>, Nil) >>,
     Platforms |-> [linux |-> EchoTemplate]]

\* Two optional parameters, each with a flag.
TwoOptional ==
    [Name |-> "pair", BaseCommand |-> <<"echo">>,
     Parameters |-> << Param("p1", "string", FALSE, <<"-", "-", "p1">>, Nil),
                       Param("p2", "int", FALSE, <<"-", "-", "p2">>, Nil) >>,
     Platforms |-> [linux |-> EchoTemplate]]

\* A required parameter that declares a default, reachable by a flag.
RequiredDefault ==
    [Name |-> "level", BaseCommand |-> <<"echo">>,
     Parameters |-> << Param("name", "string", FALSE, <<>>, StrV(<<"x">>)),
                       Param("level", "int", TRUE, <<"-", "-", "p1">>, IntV(3)) >>,
     Platforms |-> [linux |-> EchoTemplate]]

\* Two parameters reached by the same flag names, a declared type the engine does
\* not know, and a flag declared without dashes.
Mixed ==
    [Name |-> "mixed", BaseCommand |-> <<"echo">>,
     Parameters |-> << Param("a", "bool", FALSE, <<"-", "-", "verbose">>, Nil),
                       Param("b", "date", FALSE, <<"verbose">>, Nil),
                       Param("c", "float", TRUE, <<"p2">>, Nil) >>,
     Platforms |-> [linux |-> EchoTemplate]]

\* Two parameters of one name: Loader.validate does not reject it.
DupNames ==
    [Name |-> "dup", BaseCommand |-> <<"echo">>,
     Parameters |-> << Param("x", "string", FALSE, <<>>, Nil),
                       Param("x", "int", FALSE, <<"-", "-", "p1">>, Nil) >>,
     Platforms |-> [linux |-> EchoTemplate]]

\* An optional parameter with a flag and a default, as find-files would have
\* with a flag for its path, and one with a default only.
Defaulted ==
    [Name |-> "defaulted", BaseCommand |-> <<"echo">>,
     Parameters |-> << Param("path", "string", FALSE, <<"-", "-", "p1">>, StrV(<<".">>)),
                       Param("depth", "int", FALSE, <<>>, IntV(1)) >>,
     Platforms |-> [linux |-> EchoTemplate]]

\* A parameter of each numeric type and a bool, with no flag and no default.
Typed ==
    [Name |-> "typed", BaseCommand |-> <<"echo">>,
     Parameters |-> << Param("ratio", "float", TRUE, <<>>, Nil),
                       Param("force", "bool", FALSE, <<>>, Nil),
                       Param("n", "int", FALSE, <<>>, Nil) >>,
     Platforms |-> [linux |-> EchoTemplate]]

ParseCommands ==
    {TestCommand, TwoOptional, RequiredDefault, Mixed, DupNames, Defaulted, Typed}

\* Raw arguments: "5" (an int, a float, no bool), "1.5" (a float only),
\* "t" (a bool only), "12x" (text only).
ArgTexts == {<<"5">>, <<"1", ".", "5">>, <<"t">>, <<"1", "2", "x">>}

ArgLists == UNION {[1..n -> ArgTexts] : n \in 0..MaxArgs}

FlagKeys == {<<"verbose">>, <<"-", "-", "verbose">>, <<"-", "-", "p1">>, <<"p2">>}

FlagValues == {BoolV(TRUE), IntV(7)}

FlagMaps ==
    UNION {[K -> FlagValues] : K \in {S \in SUBSET FlagKeys : Cardinality(S) <= MaxFlags}}

\* One call of ParseParameters; the runtime picks the order in which the flag map
\* is ranged over.
CallParseParameters ==
    /\ calls < MaxCalls
    /\ \E order \in Orders(DOMAIN flags) :
         result' = ParseParameters(cmd, args, flags, order)
    /\ prevResult' = result
    /\ calls' = calls + 1
    /\ checked' = NotChecked
    /\ UNCHANGED <<cmd, args, flags>>
    /\ UNCHANGED <<execVars, typeVars, tmplVars, inv, cliVars, cfgVars>>

\* The caller hands the map ParseParameters returned to Execute, whose first
\* stage is validateContext (lines 67-71, as main.go lines 217-233 do).
CallValidateContext ==
    /\ calls >= 1
    /\ result.err = NoErr
    /\ checked = NotChecked
    /\ LET c == [CommandNil |-> FALSE, Command |-> cmd, Platform |-> "linux",
                 ParametersNil |-> result.isNil, Parameters |-> result.params,
                 Timeout |-> 0]
       IN  \E order \in Orders(DOMAIN c.Parameters) : checked' = validateContext(c, order)
    /\ UNCHANGED <<cmd, args, flags, calls, result, prevResult>>
    /\ UNCHANGED <<execVars, typeVars, tmplVars, inv, cliVars, cfgVars>>

InitParse ==
    /\ cmd \in ParseCommands
    /\ args \in ArgLists
    /\ flags \in FlagMaps
    /\ calls = 0
    /\ result = Success(EmptyMap)
    /\ prevResult = Success(EmptyMap)
    /\ checked = NotChecked
    /\ engine = [timeout |-> 1]
    /\ ExecIdle
    /\ TypeIdle
    /\ TmplIdle
    /\ ConcIdle
    /\ CliIdle
    /\ CfgIdle

NextParse ==
    \/ CallParseParameters
    \/ CallValidateContext

SpecParse == InitParse /\ [][NextParse]_vars

(***************************************************************************)
(* validateParameterType and convertArgument on bounded inputs: the        *)
(* specification SpecTypes draws a declared type, a value and a raw        *)
(* argument, and calls the two functions on them.                          *)
(***************************************************************************)
\* Declared types: the four the engine knows, and others (the empty string, a
\* name the loader would refuse, and near misses).
DeclaredTypes == {"string", "bool", "int", "float", "", "date", "integer", "Bool"}

\* Texts, as values of a parameter map and as raw arguments.
RawTexts ==
    {<<>>, <<"5">>, <<"-", "5">>, <<"+", "5">>, <<"0", "7">>, <<"1", "2", "x">>,
     <<" ", "5">>, <<"5", " ">>, <<"a", "b", "c">>, <<"-">>, <<"1", ".", "5">>, <<".", "5">>,
     <<"5", ".">>, <<".">>, <<"1", ".", "2", ".", "3">>, <<"1", "e", "5">>, <<"1", "e">>,
     <<"1", "E", "-", "2">>, <<"1", "e", "9", "9", "9">>, <<"i", "n", "f">>,
     <<"-", "I", "n", "f">>, <<"N", "a", "N">>,
     <<"1">>, <<"0">>, <<"t">>, <<"T">>, <<"f">>, <<"F">>,
     <<"t", "r", "u", "e">>, <<"T", "r", "u", "e">>, <<"T", "R", "U", "E">>,
     <<"f", "a", "l", "s", "e">>, <<"F", "a", "l", "s", "e">>, <<"F", "A", "L", "S", "E">>,
     <<"t", "R", "U", "E">>, <<"y", "e", "s">>, <<"2">>, <<"t", "r", "u", "e", " ">>}

\* Dynamic types of integer values a caller can put in a parameter map.
NativeIntKinds == {"int", "int8", "int16", "int32", "int64", "uint"}

\* Values of a parameter map: texts, booleans, integers and floats of every
\* width, the nil interface and a slice.
TypeValues ==
    {StrV(t) : t \in RawTexts}
        \cup {BoolV(TRUE), BoolV(FALSE), Nil, <<"[]string", 0>>}
        \cup {<<k, n>> : k \in NativeIntKinds, n \in {0, 1}}
        \cup {<<"float32", <<"num", 15, 0 - 1>> >>, Float64V(<<"num", 123, 0 - 1>>)}

\* One call of validateParameterType.
CallValidateParameterType ==
    /\ "validate" \notin typeCalls
    /\ typeErr' = validateParameterType(typeDef, typeValue)
    /\ typeCalls' = typeCalls \cup {"validate"}
    /\ UNCHANGED <<typeDef, typeValue, convArg, convResult>>
    /\ UNCHANGED <<execVars, parseVars, tmplVars, inv, cliVars, cfgVars>>

\* One call of convertArgument, with the declared type of the parameter.
CallConvertArgument ==
    /\ "convert" \notin typeCalls
    /\ convResult' = convertArgument(convArg, typeDef.Type)
    /\ typeCalls' = typeCalls \cup {"convert"}
    /\ UNCHANGED <<typeDef, typeValue, typeErr, convArg>>
    /\ UNCHANGED <<execVars, parseVars, tmplVars, inv, cliVars, cfgVars>>

InitTypes ==
    /\ typeDef \in {Param("p", t, FALSE, <<>>, Nil) : t \in DeclaredTypes}
    /\ typeValue \in TypeValues
    /\ convArg \in RawTexts
    /\ typeErr = NoErr
    /\ convResult = [val |-> Nil, err |-> NoErr]
    /\ typeCalls = {}
    /\ engine = [timeout |-> 1]
    /\ ExecIdle
    /\ ParseIdle
    /\ TmplIdle
    /\ ConcIdle
    /\ CliIdle
    /\ CfgIdle

NextTypes ==
    \/ CallValidateParameterType
    \/ CallConvertArgument

SpecTypes == InitTypes /\ [][NextTypes]_vars

(***************************************************************************)
(* renderTemplate on bounded inputs: the specification SpecRender draws a  *)
(* command, a template and a parameter map, and renders.  The templates    *)
(* are those of the form                                                   *)
(*   pre {{.base_command}} sep {{if .params.verbose}} then {{else}} else   *)
(*   {{end}} mid {{.params.name}} post                                     *)
(* (without the spaces), pre, sep, then, else, mid and post being literal  *)
(* text, and the two templates that fail.                                  *)
(***************************************************************************)
TemplateShapes ==
    [pre : {<<>>, <<" ", "\n">>},
     sep : {<<>>, <<" ">>},
     then : {<<>>, <<" ", "-", "v">>, <<"-", "v">>},
     else : {<<>>, <<" ", "-", "q">>},
     mid : {<<" ", "'">>, <<" ">>},
     name : {"message", "count"},
     post : {<<"'">>, <<" ", "\n">>}]

\* A literal text of the template: text/template makes no node of an empty one.
TextNode(t) == IF t = <<>> THEN <<>> ELSE << <<"text", t>> >>

\* The parse of the template of shape sh.
TemplateOf(sh) ==
    [ok |-> TRUE,
     nodes |-> TextNode(sh.pre) \o << <<"base">> >> \o TextNode(sh.sep)
                  \o << <<"if", "verbose", sh.then, sh.else>> >> \o TextNode(sh.mid)
                  \o << <<"param", sh.name>> >> \o TextNode(sh.post)]

RenderTemplates ==
    {TemplateOf(sh) : sh \in TemplateShapes}
        \cup {BrokenTemplate, FieldTemplate, FindUnix, ReplaceWindows}

\* Parameter maps: each of verbose, message and count absent or present.
RenderParamMaps ==
    {m \in UNION {[K -> ParamValues \cup {BoolV(FALSE), StrV(<<"a", " ", " ", "b">>),
                                           IntV(0 - 12)}] :
                     K \in SUBSET ParamKeys} :
        /\ "verbose" \in DOMAIN m => Kind(m["verbose"]) = "bool"
        /\ "message" \in DOMAIN m => Kind(m["message"]) = "string"
        /\ "count" \in DOMAIN m => Kind(m["count"]) = "int"}

\* One call of renderTemplate (lines 173-193); tmplBuffer keeps what tmpl.Execute
\* wrote when it ran to the end.
CallRenderTemplate ==
    /\ ~tmplCalled
    /\ tmplResult' = renderTemplate(tmplCommand, tmplText, tmplParams)
    /\ tmplBuffer' =
          IF tmplText.ok
          THEN ExecNodes(tmplText.nodes, tmplCommand.BaseCommand, tmplParams).out
          ELSE <<>>
    /\ tmplCalled' = TRUE
    /\ UNCHANGED <<tmplCommand, tmplText, tmplParams>>
    /\ UNCHANGED <<execVars, parseVars, typeVars, inv, cliVars, cfgVars>>

InitRender ==
    /\ tmplCommand \in ExecCommands
    /\ tmplText \in RenderTemplates
    /\ tmplParams \in RenderParamMaps
    /\ tmplBuffer = <<>>
    /\ tmplResult = [text |-> <<>>, err |-> NoErr]
    /\ tmplCalled = FALSE
    /\ engine = [timeout |-> 1]
    /\ ExecIdle
    /\ ParseIdle
    /\ TypeIdle
    /\ ConcIdle
    /\ CliIdle
    /\ CfgIdle

NextRender == CallRenderTemplate

SpecRender == InitRender /\ [][NextRender]_vars

(***************************************************************************)
(* Two Execute invocations on one Engine at the same time: the             *)
(* specification SpecConcurrent.  Execute keeps everything it works with   *)
(* in locals of its own call (platformCmd, renderedCmd, and within         *)
(* executeCommand timeout, ctx, cmd, err); what two calls share is the     *)
(* Engine.  One invocation is the one of Spec, with its variables and its  *)
(* steps; each other invocation keeps the same locals in a record of inv   *)
(* and takes the same steps on them.  Both have passed validateContext     *)
(* when the specification starts.  Each invocation's deadline runs on its  *)
(* own timer, so time passes for them in every relative order.             *)
(***************************************************************************)
\* The contexts of the concurrent invocations: one that runs under its own
\* timeout, one that runs under the engine's, one whose timeout is already over,
\* one whose template fails, one for a platform without a template, an invalid one.
ConcContexts ==
    {[CommandNil |-> FALSE, Command |-> EchoCommand, Platform |-> "linux",
      ParametersNil |-> FALSE, Parameters |-> [message |-> StrV(<<"h", "i">>)],
      Timeout |-> 1],
     [CommandNil |-> FALSE, Command |-> HeadCommand, Platform |-> "linux",
      ParametersNil |-> FALSE, Parameters |-> [count |-> IntV(5)], Timeout |-> 0],
     [CommandNil |-> FALSE, Command |-> HeadCommand, Platform |-> "linux",
      ParametersNil |-> FALSE, Parameters |-> EmptyMap, Timeout |-> 0 - 1],
     [CommandNil |-> FALSE, Command |-> HeadCommand, Platform |-> "darwin",
      ParametersNil |-> FALSE, Parameters |-> [count |-> IntV(5)], Timeout |-> 1],
     [CommandNil |-> FALSE, Command |-> EchoCommand, Platform |-> "windows",
      ParametersNil |-> FALSE, Parameters |-> [message |-> StrV(<<"h", "i">>)],
      Timeout |-> MaxTimeout],
     [CommandNil |-> FALSE, Command |-> EchoCommand, Platform |-> "linux",
      ParametersNil |-> FALSE, Parameters |-> EmptyMap, Timeout |-> 1]}

\* The locals of an invocation of Execute on c whose validateContext returned err
\* (lines 67-71).
Entered(c, err) ==
    [ctx |-> c, ctxBefore |-> c,
     pc |-> IF err # NoErr THEN "returned" ELSE "lookup",
     stages |-> << <<"validate", IF err # NoErr THEN "failed" ELSE "ok">> >>,
     outcome |-> IF err # NoErr THEN <<"invalid execution context", err>> ELSE NoErr,
     platformCmd |-> NoTemplate, renderedCmd |-> <<>>, timeout |-> 0, armed |-> FALSE,
     elapsed |-> 0, ctxErr |-> "nil", proc |-> "none", exitStatus |-> 0,
     hitRunning |-> FALSE, spawned |-> 0, runErr |-> NoErr]

EnteredInvocations ==
    UNION {{Entered(c, validateContext(c, order)) : order \in Orders(DOMAIN c.Parameters)} :
              c \in ConcContexts}

\* The platform-specific template is looked up (lines 73-77).
GoLookupPlatform(g) ==
    LET l == inv[g]
    IN  /\ l.pc = "lookup"
        /\ inv' = [inv EXCEPT ![g] =
                     IF l.ctx.Platform \in DOMAIN l.ctx.Command.Platforms
                     THEN [l EXCEPT !.platformCmd = l.ctx.Command.Platforms[l.ctx.Platform],
                                    !.stages = Append(l.stages, <<"lookup", "ok">>),
                                    !.pc = "render"]
                     ELSE [l EXCEPT !.outcome = <<"not supported on platform",
                                                  l.ctx.Command.Name, l.ctx.Platform>>,
                                    !.stages = Append(l.stages, <<"lookup", "failed">>),
                                    !.pc = "returned"]]
        /\ UNCHANGED <<execVars, parseVars, typeVars, tmplVars, cliVars, cfgVars>>

\* The template is rendered (lines 79-83).
GoRender(g) ==
    LET l == inv[g]
        r == renderTemplate(l.ctx.Command, l.platformCmd, l.ctx.Parameters)
    IN  /\ l.pc = "render"
        /\ inv' = [inv EXCEPT ![g] =
                     IF r.err # NoErr
                     THEN [l EXCEPT !.outcome = <<"failed to render command template", r.err>>,
                                    !.stages = Append(l.stages, <<"render", "failed">>),
                                    !.pc = "returned"]
                     ELSE [l EXCEPT !.renderedCmd = r.text,
                                    !.stages = Append(l.stages, <<"render", "ok">>),
                                    !.pc = "exec"]]
        /\ UNCHANGED <<execVars, parseVars, typeVars, tmplVars, cliVars, cfgVars>>

\* GoCreateContext as it would be if the timeout settled for one call were kept
\* in the Engine.
GoCreateContextKeepsTimeout(g) ==
    LET l == inv[g]
        t == EffectiveTimeout(l.ctx.Timeout, engine.timeout)
    IN  /\ l.pc = "exec"
        /\ inv' = [inv EXCEPT ![g] =
                     [l EXCEPT !.timeout = t, !.armed = TRUE, !.elapsed = 0,
                               !.ctxErr = IF t <= 0 THEN "DeadlineExceeded" ELSE "nil",
                               !.stages = Append(l.stages, <<"run", "started">>),
                               !.pc = "start"]]
        /\ engine' = [timeout |-> t]
        /\ UNCHANGED <<ctx, ctxBefore, pc, stages, platformCmd, renderedCmd, timeout,
                       armed, elapsed, ctxErr, proc, exitStatus, hitRunning, spawned,
                       runErr, outcome>>
        /\ UNCHANGED <<parseVars, typeVars, tmplVars, cliVars, cfgVars>>

\* executeCommand up to cmd.Run() (lines 196-219).
GoCreateContext(g) ==
    LET l == inv[g]
        t == EffectiveTimeout(l.ctx.Timeout, engine.timeout)
    IN  /\ l.pc = "exec"
        /\ inv' = [inv EXCEPT ![g] =
                     [l EXCEPT !.timeout = t, !.armed = TRUE, !.elapsed = 0,
                               !.ctxErr = IF t <= 0 THEN "DeadlineExceeded" ELSE "nil",
                               !.stages = Append(l.stages, <<"run", "started">>),
                               !.pc = "start"]]
        /\ UNCHANGED <<execVars, parseVars, typeVars, tmplVars, cliVars, cfgVars>>

\* cmd.Run() starts the shell (line 222).
GoStart(g) ==
    LET l == inv[g]
    IN  /\ l.pc = "start"
        /\ \/ /\ l.ctxErr # "nil"
              /\ inv' = [inv EXCEPT ![g] =
                           [l EXCEPT !.runErr = <<"context deadline exceeded">>,
                                     !.pc = "classify"]]
           \/ /\ l.ctxErr = "nil"
              /\ inv' = [inv EXCEPT ![g] =
                           [l EXCEPT !.runErr = <<"exec: start failed">>, !.pc = "classify"]]
           \/ /\ l.ctxErr = "nil"
              /\ inv' = [inv EXCEPT ![g] =
                           [l EXCEPT !.proc = "running", !.spawned = l.spawned + 1,
                                     !.pc = "wait"]]
        /\ UNCHANGED <<execVars, parseVars, typeVars, tmplVars, cliVars, cfgVars>>

\* The child of invocation g exits on its own.
GoChildExits(g) ==
    LET l == inv[g]
    IN  /\ l.proc = "running"
        /\ \E n \in ExitCodes :
             inv' = [inv EXCEPT ![g] = [l EXCEPT !.exitStatus = n, !.proc = "exited"]]
        /\ UNCHANGED <<execVars, parseVars, typeVars, tmplVars, cliVars, cfgVars>>

\* A time unit passes on the timer of invocation g's context.
GoTick(g) ==
    LET l == inv[g]
        due == l.elapsed + 1 >= l.timeout /\ l.ctxErr = "nil"
    IN  /\ l.armed
        /\ l.elapsed < MaxTimeout
        /\ inv' = [inv EXCEPT ![g] =
                     IF due
                     THEN [l EXCEPT !.elapsed = l.elapsed + 1,
                                    !.ctxErr = "DeadlineExceeded",
                                    !.hitRunning = (l.proc = "running"),
                                    !.proc = IF l.proc = "running" THEN "killed" ELSE l.proc]
                     ELSE [l EXCEPT !.elapsed = l.elapsed + 1]]
        /\ UNCHANGED <<execVars, parseVars, typeVars, tmplVars, cliVars, cfgVars>>

\* cmd.Run() returns (line 222).
GoWait(g) ==
    LET l == inv[g]
    IN  /\ l.pc = "wait"
        /\ l.proc \in {"exited", "killed"}
        /\ \E e \in RunErrors(l.proc, l.exitStatus, l.ctxErr) :
             inv' = [inv EXCEPT ![g] = [l EXCEPT !.runErr = e, !.pc = "classify"]]
        /\ UNCHANGED <<execVars, parseVars, typeVars, tmplVars, cliVars, cfgVars>>

\* executeCommand classifies the error, cancels the context and returns (lines
\* 225-241, 204, 86).
GoClassify(g) ==
    LET l == inv[g]
    IN  /\ l.pc = "classify"
        /\ inv' = [inv EXCEPT ![g] =
                     [l EXCEPT !.outcome = ClassifyError(l.runErr, l.ctxErr, l.timeout,
                                                         l.renderedCmd),
                               !.armed = FALSE,
                               !.pc = "returned"]]
        /\ UNCHANGED <<execVars, parseVars, typeVars, tmplVars, cliVars, cfgVars>>

\* The engine made by NewEngine, and two invocations that have entered Execute:
\* the one of Spec and inv[1].
InitConcurrent ==
    /\ engine \in {[timeout |-> d] : d \in {1, MaxTimeout}}
    /\ \E l \in EnteredInvocations :
         /\ ctx = l.ctx /\ ctxBefore = l.ctxBefore /\ pc = l.pc /\ stages = l.stages
         /\ outcome = l.outcome /\ platformCmd = l.platformCmd
         /\ renderedCmd = l.renderedCmd /\ timeout = l.timeout /\ armed = l.armed
         /\ elapsed = l.elapsed /\ ctxErr = l.ctxErr /\ proc = l.proc
         /\ exitStatus = l.exitStatus /\ hitRunning = l.hitRunning
         /\ spawned = l.spawned /\ runErr = l.runErr
    /\ inv \in {<<l>> : l \in EnteredInvocations}
    /\ ParseIdle
    /\ TypeIdle
    /\ TmplIdle
    /\ CliIdle
    /\ CfgIdle

NextConcurrent ==
    \/ LookupPlatform
    \/ Render
    \/ CreateContext
    \/ Start
    \/ ChildExits
    \/ Tick
    \/ Wait
    \/ Classify
    \/ GoLookupPlatform(1)
    \/ GoRender(1)
    \/ GoCreateContext(1)
    \/ GoStart(1)
    \/ GoChildExits(1)
    \/ GoTick(1)
    \/ GoWait(1)
    \/ GoClassify(1)

SpecConcurrent == InitConcurrent /\ [][NextConcurrent]_vars

(***************************************************************************)
(* The goldfish command line (package main).  The specification SpecCLI    *)
(* starts a goldfish process for one generated command on a platform, with *)
(* flags and positional arguments on its command line: cobra checks the    *)
(* flags and runs executeCommand, which collects the flag map, calls       *)
(* ParseParameters and then Execute (the steps of Spec); main exits with   *)
(* a status.                                                               *)
(***************************************************************************)
\* Most positional arguments on goldfish's command line.
MaxCLIArgs == 2

\* DefaultTimeout (30 seconds): the largest timeout of the model.
DefaultTimeout == MaxTimeout

\* The commands goldfish is started for: two of the embedded configuration and
\* one of a user's commands.yml, with an int parameter and one platform.
CLICommands == {ReplaceInFile, FindFiles, TestCommand}

RECURSIVE TrimLeftDashes(_)
\* strings.TrimLeft(s, "-")
TrimLeftDashes(s) == IF s # <<>> /\ Head(s) = "-" THEN TrimLeftDashes(Tail(s)) ELSE s

\* The name of the cobra flag generated for a parameter (lines 133-137, 192-195).
FlagNameOf(param) ==
    IF param.Flag # <<>> THEN TrimLeftDashes(param.Flag) ELSE <<param.Name>>

\* The default value the flag is registered with (lines 146-184).
FlagDefault(param) ==
    CASE param.Type = "string" ->
           IF Kind(param.Default) = "string" THEN param.Default ELSE StrV(<<>>)
      [] param.Type = "bool" ->
           IF Kind(param.Default) = "bool" THEN param.Default ELSE BoolV(FALSE)
      [] param.Type = "int" ->
           IF Kind(param.Default) = "int" THEN param.Default ELSE IntV(0)
      [] param.Type = "float" ->
           IF Kind(param.Default) = "float64" THEN param.Default
           ELSE Float64V(<<"num", 0, 0>>)

\* cobraCmd.Flags().GetString and the like: the value given on the command line,
\* the registered default without one.
FlagValue(param, given) ==
    IF FlagNameOf(param) \in DOMAIN given THEN given[FlagNameOf(param)]
    ELSE FlagDefault(param)

\* Whether executeCommand puts the parameter's flag into the flag map
\* (lines 197-214).
FlagCollected(param, given) ==
    CASE param.Type = "string" -> Payload(FlagValue(param, given)) # <<>>
      [] param.Type = "bool" -> Payload(FlagValue(param, given))
      [] param.Type \in {"int", "float"} -> FlagNameOf(param) \in DOMAIN given
      [] OTHER -> FALSE

\* The key executeCommand stores a flag under: "--"+flagName.
FlagKeyOf(param) == <<"-", "-">> \o FlagNameOf(param)

RECURSIVE CollectFlags(_, _, _, _)
\* The flag map executeCommand builds, from the i-th parameter on (lines 190-215).
CollectFlags(parameters, given, i, flagMap) ==
    IF i > Len(parameters) THEN flagMap
    ELSE LET param == parameters[i]
         IN  CollectFlags(parameters, given, i + 1,
                 IF FlagCollected(param, given)
                 THEN MapPut(flagMap, FlagKeyOf(param), FlagValue(param, given))
                 ELSE flagMap)

\* cobra refuses to run a command while a flag marked required (line 152) is not
\* on the command line.
RequiredFlagMissing(parameters, given) ==
    \E i \in DOMAIN parameters :
        /\ parameters[i].Type = "string"
        /\ parameters[i].Required
        /\ FlagNameOf(parameters[i]) \notin DOMAIN given

\* The value tried for a flag of each type.
CLIFlagValue(type) ==
    CASE type = "string" -> StrV(<<"x">>)
      [] type = "bool" -> BoolV(TRUE)
      [] type = "int" -> IntV(7)
      [] OTHER -> Float64V(<<"num", 15, 0 - 1>>)

\* The command lines' flags: some of the command's flags, each with its value.
CLIFlagSets(command) ==
    {[n \in {FlagNameOf(command.Parameters[i]) : i \in I} |->
         CLIFlagValue((CHOOSE p \in {command.Parameters[i] : i \in I} :
                           FlagNameOf(p) = n).Type)] :
       I \in SUBSET DOMAIN command.Parameters}

CLIArgTexts == {<<"y">>, <<"5">>}

CLIArgLists == UNION {[1..n -> CLIArgTexts] : n \in 0..MaxCLIArgs}

\* What RunCommand leaves of the Execute invocation when Execute is not reached.
ExecuteNotCalled ==
    UNCHANGED <<ctx, ctxBefore, pc, stages, platformCmd, renderedCmd, timeout, armed,
                elapsed, ctxErr, proc, exitStatus, hitRunning, spawned, runErr, outcome>>

\* rootCmd.Execute() (line 46) up to the first stage of Engine.Execute: cobra
\* finds the generated command (lines 94-97) and checks the required flags;
\* executeCommand collects the flag map, calls ParseParameters, makes the
\* ExecutionContext and calls Execute, which validates it (lines 188-233).
RunCommand ==
    /\ appPc = "start"
    /\ IF goos \notin DOMAIN cmd.Platforms
       THEN /\ appErr' = <<"unknown command", cmd.Name>>
            /\ appPc' = "returned"
            /\ UNCHANGED <<flags, result>>
            /\ ExecuteNotCalled
       ELSE IF RequiredFlagMissing(cmd.Parameters, cliFlags)
       THEN /\ appErr' = <<"required flag(s) not set">>
            /\ appPc' = "returned"
            /\ UNCHANGED <<flags, result>>
            /\ ExecuteNotCalled
       ELSE /\ flags' = CollectFlags(cmd.Parameters, cliFlags, 1, EmptyMap)
            /\ \E order \in Orders(DOMAIN flags') :
                 result' = ParseParameters(cmd, args, flags', order)
            /\ IF result'.err # NoErr
               THEN /\ appErr' = <<"failed to parse parameters", result'.err>>
                    /\ appPc' = "returned"
                    /\ ExecuteNotCalled
               ELSE /\ ctx' = [CommandNil |-> FALSE, Command |-> cmd, Platform |-> goos,
                               ParametersNil |-> FALSE, Parameters |-> result'.params,
                               Timeout |-> DefaultTimeout]
                    /\ ctxBefore' = ctx'
                    /\ \E order \in Orders(DOMAIN ctx'.Parameters) :
                         LET err == validateContext(ctx', order)
                         IN  IF err # NoErr
                             THEN /\ outcome' = <<"invalid execution context", err>>
                                  /\ stages' = << <<"validate", "failed">> >>
                                  /\ pc' = "returned"
                             ELSE /\ outcome' = NoErr
                                  /\ stages' = << <<"validate", "ok">> >>
                                  /\ pc' = "lookup"
                    /\ Fresh
                    /\ appPc' = "executing"
                    /\ UNCHANGED appErr
    /\ UNCHANGED <<engine, cmd, args, calls, prevResult, checked, goos, cliFlags,
                   exitCode>>
    /\ UNCHANGED <<typeVars, tmplVars, inv, cfgVars>>

\* Execute returns to executeCommand, executeCommand to cobra, and
\* rootCmd.Execute() to main, each handing on the error (lines 233, 46).
ExecuteReturns ==
    /\ appPc = "executing"
    /\ pc = "returned"
    /\ appErr' = outcome
    /\ appPc' = "returned"
    /\ UNCHANGED <<goos, cliFlags, exitCode>>
    /\ UNCHANGED <<execVars, parseVars, typeVars, tmplVars, inv, cfgVars>>

\* The exit status main ends the process with (lines 46-50): 1 after os.Exit(1),
\* 0 when main returns.
ExitStatus(err) == IF err # NoErr THEN 1 ELSE 0

\* main ends the process.
MainExit ==
    /\ appPc = "returned"
    /\ exitCode' = ExitStatus(appErr)
    /\ appPc' = "exited"
    /\ UNCHANGED <<goos, cliFlags, appErr>>
    /\ UNCHANGED <<execVars, parseVars, typeVars, tmplVars, inv, cfgVars>>

\* main has made the engine with NewEngine(DefaultTimeout) (line 35) and the
\* process is about to run one generated command.
InitCLI ==
    /\ engine = [timeout |-> DefaultTimeout]
    /\ cmd \in CLICommands
    /\ goos \in PlatformNames
    /\ cliFlags \in CLIFlagSets(cmd)
    /\ args \in CLIArgLists
    /\ flags = EmptyMap
    /\ calls = 0
    /\ result = Success(EmptyMap)
    /\ prevResult = Success(EmptyMap)
    /\ checked = NotChecked
    /\ appPc = "start"
    /\ appErr = NoErr
    /\ exitCode = NotExited
    /\ ExecIdle
    /\ TypeIdle
    /\ TmplIdle
    /\ ConcIdle
    /\ CfgIdle

NextCLI ==
    \/ RunCommand
    \/ LookupPlatform
    \/ Render
    \/ CreateContext
    \/ Start
    \/ ChildExits
    \/ Tick
    \/ Wait
    \/ Classify
    \/ ExecuteReturns
    \/ MainExit

SpecCLI == InitCLI /\ [][NextCLI]_vars

(***************************************************************************)
(* Package config: Loader.validate, Config.FindCommand and MergeConfigs.   *)
(* A *Config is a nil flag beside the sequence of its commands; of a       *)
(* command the model keeps what these functions read: Name, Alias,         *)
(* BaseCommand, the Name and Type of each parameter, and the Template of   *)
(* each platform (the empty string, or one that stands for any other).     *)
(* The specification SpecMerge calls MergeConfigs on two configurations,   *)
(* SpecValidate calls Loader.validate on one.                              *)
(***************************************************************************)
\* Most commands in a configuration.
MaxCommands == 2

ConfigOf(commands) == [isNil |-> FALSE, Commands |-> commands]

CfgParam(name, type) == [Name |-> name, Type |-> type]

CfgCommand(name, alias, base, parameters, platforms) ==
    [Name |-> name, Alias |-> alias, BaseCommand |-> base, Parameters |-> parameters,
     Platforms |-> platforms]

\* isValidParameterType (lines 165-173)
isValidParameterType(paramType) == paramType \in {"string", "bool", "int", "float"}

\* The parameter loop of validate (lines 140-150): the error of the first
\* parameter that has one.
CheckParameters(command) ==
    LET ps == command.Parameters
        bad(j) == \/ ps[j].Name = ""
                  \/ ps[j].Type = ""
                  \/ ~isValidParameterType(ps[j].Type)
    IN  IF \E j \in DOMAIN ps : bad(j)
        THEN LET j == CHOOSE k \in DOMAIN ps : bad(k) /\ \A l \in 1..(k - 1) : ~bad(l)
             IN  IF ps[j].Name = ""
                 THEN <<"parameter name is required", command.Name, j - 1>>
                 ELSE IF ps[j].Type = ""
                 THEN <<"parameter type is required", command.Name, ps[j].Name>>
                 ELSE <<"invalid type", command.Name, ps[j].Name, ps[j].Type>>
        ELSE NoErr

\* The platform loop of validate (lines 153-157), the map being ranged over in
\* the given order.
CheckTemplates(command, order) ==
    IF \E k \in DOMAIN order : command.Platforms[order[k]].Template = ""
    THEN LET k == CHOOSE n \in DOMAIN order :
                      /\ command.Platforms[order[n]].Template = ""
                      /\ \A l \in 1..(n - 1) : command.Platforms[order[l]].Template # ""
         IN  <<"template is required", command.Name, order[k]>>
    ELSE NoErr

\* One iteration of validate's loop over the commands (lines 114-158), nameMap
\* and aliasMap being the keys stored by the iterations before it.
CheckCommand(command, i, nameMap, aliasMap, order) ==
    IF command.Name = "" THEN <<"name is required", i - 1>>
    ELSE IF command.BaseCommand = "" THEN <<"base_command is required", command.Name>>
    ELSE IF DOMAIN command.Platforms = {}
    THEN <<"at least one platform must be defined", command.Name>>
    ELSE IF command.Name \in nameMap THEN <<"duplicate command name", command.Name>>
    ELSE IF /\ command.Alias # ""
            /\ command.Alias \in aliasMap \cup nameMap \cup {command.Name}
    THEN <<"duplicate command alias", command.Alias>>
    ELSE IF CheckParameters(command) # NoErr THEN CheckParameters(command)
    ELSE CheckTemplates(command, order)

RECURSIVE ValidateFrom(_, _, _, _, _)
\* validate's loop from the i-th command on.
ValidateFrom(commands, i, nameMap, aliasMap, orders) ==
    IF i > Len(commands) THEN NoErr
    ELSE LET command == commands[i]
             err == CheckCommand(command, i, nameMap, aliasMap, orders[i])
         IN  IF err # NoErr THEN err
             ELSE ValidateFrom(commands, i + 1, nameMap \cup {command.Name},
                               IF command.Alias # "" THEN aliasMap \cup {command.Alias}
                               ELSE aliasMap,
                               orders)

\* Loader.validate (lines 105-162); orders[i] is the order in which the
\* platforms of the i-th command are ranged over.
validate(config, orders) ==
    IF Len(config.Commands) = 0 THEN <<"no commands defined in configuration">>
    ELSE ValidateFrom(config.Commands, 1, {}, {}, orders)

\* Config.FindCommand (lines 177-184): the first command of that name or alias.
FindCommand(config, nameOrAlias) ==
    LET cs == config.Commands
        hit(i) == cs[i].Name = nameOrAlias \/ cs[i].Alias = nameOrAlias
    IN  IF \E i \in DOMAIN cs : hit(i)
        THEN [found |-> TRUE,
              command |-> cs[CHOOSE i \in DOMAIN cs : hit(i) /\ \A j \in 1..(i - 1) : ~hit(j)]]
        ELSE [found |-> FALSE, command |-> CfgCommand("", "", "", <<>>, EmptyMap)]

\* The keys of MergeConfigs' overrideMap (lines 60-66).
OverrideMap(override) ==
    {override.Commands[i].Name : i \in DOMAIN override.Commands}
        \cup {override.Commands[i].Alias :
                 i \in {j \in DOMAIN override.Commands : override.Commands[j].Alias # ""}}

\* MergeConfigs as it would be if only the names were compared.
MergeConfigsByName(base, override) ==
    IF base.isNil THEN override
    ELSE IF override.isNil THEN base
    ELSE LET names == {override.Commands[i].Name : i \in DOMAIN override.Commands}
             kept(c) == c.Name \notin names
         IN  ConfigOf(override.Commands \o SelectSeq(base.Commands, kept))

\* MergeConfigs (lines 50-82)
MergeConfigs(base, override) ==
    IF base.isNil THEN override
    ELSE IF override.isNil THEN base
    ELSE LET overrideMap == OverrideMap(override)
             kept(c) == /\ c.Name \notin overrideMap
                        /\ c.Alias = "" \/ c.Alias \notin overrideMap
         IN  ConfigOf(override.Commands \o SelectSeq(base.Commands, kept))

\* The platforms of a well-formed command.
GoodPlatforms == [k \in {"linux"} |-> [Template |-> "t"]]

\* The commands merged: every name with every alias; base_command tells the
\* commands of the two configurations apart.
MergeCommands(base) ==
    {CfgCommand(n, a, base, << CfgParam("x", "string") >>, GoodPlatforms) :
        n \in {"a", "b"}, a \in {"", "a", "b"}}

SeqsUpTo(S, n) == UNION {[1..k -> S] : k \in 0..n}

MergeInputs(base) ==
    {NilConfig} \cup {ConfigOf(cs) : cs \in SeqsUpTo(MergeCommands(base), MaxCommands)}

\* The parameter lists tried by validate: none, a good one, one name twice, an
\* unknown type, no name, no type.
ParameterLists ==
    {<<>>,
     << CfgParam("x", "string") >>,
     << CfgParam("x", "string"), CfgParam("x", "int") >>,
     << CfgParam("x", "date") >>,
     << CfgParam("", "string") >>,
     << CfgParam("x", "") >>}

\* The platform maps tried by validate: none, a template, an empty template, and
\* an empty template beside a good one.
PlatformMaps ==
    {EmptyMap,
     GoodPlatforms,
     [k \in {"linux"} |-> [Template |-> ""]],
     [k \in {"linux", "darwin"} |-> [Template |-> IF k = "darwin" THEN "" ELSE "t"]]}

\* The commands validated: every name (or none) with every alias (or none), and
\* for one of them every base_command, parameter list and platform map.
ValidateCommands ==
    {CfgCommand(n, a, "sed", << CfgParam("x", "string") >>, GoodPlatforms) :
        n \in {"", "a", "b"}, a \in {"", "a", "b"}}
    \cup {CfgCommand("a", "", "", << CfgParam("x", "string") >>, GoodPlatforms)}
    \cup {CfgCommand("a", "", "sed", ps, GoodPlatforms) : ps \in ParameterLists}
    \cup {CfgCommand("a", "", "sed", << CfgParam("x", "string") >>, pl) :
             pl \in PlatformMaps}

\* The orders in which the platforms of each command can be ranged over.
PlatformOrders(config) ==
    LET cs == config.Commands
        all == UNION {Orders(DOMAIN cs[i].Platforms) : i \in DOMAIN cs}
    IN  {o \in [DOMAIN cs -> all] : \A i \in DOMAIN cs : o[i] \in Orders(DOMAIN cs[i].Platforms)}

\* One call of MergeConfigs.
CallMergeConfigs ==
    /\ ~mCalled
    /\ mResult' = MergeConfigs(mBase, mOverride)
    /\ mCalled' = TRUE
    /\ UNCHANGED <<mBase, mOverride, vConfig, vErr, vCalled>>
    /\ UNCHANGED <<execVars, parseVars, typeVars, tmplVars, inv, cliVars>>

InitMerge ==
    /\ mBase \in MergeInputs("sed")
    /\ mOverride \in MergeInputs("gsed")
    /\ mResult = NilConfig
    /\ mCalled = FALSE
    /\ vConfig = NilConfig
    /\ vErr = NoErr
    /\ vCalled = FALSE
    /\ engine = [timeout |-> 1]
    /\ ExecIdle
    /\ ParseIdle
    /\ TypeIdle
    /\ TmplIdle
    /\ ConcIdle
    /\ CliIdle

NextMerge == CallMergeConfigs

SpecMerge == InitMerge /\ [][NextMerge]_vars

\* One call of Loader.validate.
CallValidate ==
    /\ ~vCalled
    /\ \E orders \in PlatformOrders(vConfig) : vErr' = validate(vConfig, orders)
    /\ vCalled' = TRUE
    /\ UNCHANGED <<mBase, mOverride, mResult, mCalled, vConfig>>
    /\ UNCHANGED <<execVars, parseVars, typeVars, tmplVars, inv, cliVars>>

InitValidate ==
    /\ vConfig \in {ConfigOf(cs) : cs \in SeqsUpTo(ValidateCommands, MaxCommands)}
    /\ vErr = NoErr
    /\ vCalled = FALSE
    /\ mBase = NilConfig
    /\ mOverride = NilConfig
    /\ mResult = NilConfig
    /\ mCalled = FALSE
    /\ engine = [timeout |-> 1]
    /\ ExecIdle
    /\ ParseIdle
    /\ TypeIdle
    /\ TmplIdle
    /\ ConcIdle
    /\ CliIdle

NextValidate == CallValidate

SpecValidate == InitValidate /\ [][NextValidate]_vars

(***************************************************************************)
(* Properties of Execute, checked under Spec.                              *)
(***************************************************************************)
StageOrder == <<"validate", "lookup", "render", "run">>

\* The timeout an invocation must run its command under.
ExpectedTimeout == IF ctxBefore.Timeout # 0 THEN ctxBefore.Timeout ELSE engine.timeout

\* A child of this invocation exists or has existed.
ChildStarted == spawned > 0 \/ proc # "none"

\* C1: the stages of an invocation run in the order validate, lookup, render, run,
\* each only after all the earlier ones succeeded; a stage that fails ends the
\* invocation at once with an error and without a child; and a child is started
\* only after validate, lookup and render have all succeeded.
C1_StagesInOrder ==
    /\ Len(stages) <= Len(StageOrder)
    /\ \A i \in DOMAIN stages : stages[i][1] = StageOrder[i]
    /\ \A i \in DOMAIN stages : i < Len(stages) => stages[i][2] = "ok"
    /\ \A i \in DOMAIN stages :
         stages[i][2] = "failed" =>
            pc = "returned" /\ outcome # NoErr /\ ~ChildStarted
    /\ ChildStarted =>
         /\ Len(stages) = Len(StageOrder)
         /\ platformCmd.ok
         /\ ctx.Platform \in DOMAIN ctx.Command.Platforms
         /\ platformCmd = ctx.Command.Platforms[ctx.Platform]

\* An invocation went through all four stages and its child has come and gone.
C1_Witness == pc = "returned" /\ spawned = 1 /\ Len(stages) = Len(StageOrder)

\* C2 (as claimed): once Execute has returned, a child that exited on its own with
\* a non-zero status N (so before the deadline, which would have killed it) has
\* produced the ExitErrorWithCode carrying exactly N.
C2_ExitCodeAlwaysPreserved ==
    (pc = "returned" /\ proc = "exited" /\ exitStatus # 0) =>
        outcome = <<"ExitErrorWithCode", exitStatus>>

\* C3: when the deadline elapses while the child is running, the child is
\* terminated; Execute then returns the timed-out error, which reports the timeout
\* in effect and the rendered command and is not an error with an exit code; and
\* after Execute has returned no child is running.
C3_TimeoutKillsAndReports ==
    /\ hitRunning => proc = "killed" /\ ctxErr = "DeadlineExceeded"
    /\ (pc = "returned" /\ hitRunning) =>
         /\ outcome = <<"command timed out", ExpectedTimeout, renderedCmd>>
         /\ outcome[1] # "ExitErrorWithCode"
    /\ pc = "returned" => proc # "running"

\* Execute has returned from an invocation whose child was killed at the deadline.
C3_Witness == pc = "returned" /\ hitRunning /\ proc = "killed"

\* C4: whenever a deadline context exists its timeout is the context's Timeout if
\* that is non-zero and the engine's default otherwise; a child runs only while
\* such a context exists and its deadline has not been reached.
C4_AlwaysUnderDeadline ==
    /\ armed => timeout = ExpectedTimeout
    /\ proc = "running" => armed /\ ctxErr = "nil" /\ elapsed < timeout
    /\ ChildStarted => timeout = ExpectedTimeout /\ timeout > 0

\* A child is running under the engine's default timeout, the context's being zero.
C4_Witness ==
    proc = "running" /\ ctxBefore.Timeout = 0 /\ timeout = engine.timeout /\ elapsed > 0

\* The context Execute was given has one of the four defects.
CommandMissing == ctxBefore.CommandNil

ParametersMissing == ~ctxBefore.CommandNil /\ ctxBefore.ParametersNil

RequiredAbsent ==
    /\ ~ctxBefore.CommandNil /\ ~ctxBefore.ParametersNil
    /\ \E i \in DOMAIN ctxBefore.Command.Parameters :
         /\ ctxBefore.Command.Parameters[i].Required
         /\ ctxBefore.Command.Parameters[i].Name \notin DOMAIN ctxBefore.Parameters

UnknownKey ==
    /\ ~ctxBefore.CommandNil /\ ~ctxBefore.ParametersNil
    /\ \E k \in DOMAIN ctxBefore.Parameters :
         \A i \in DOMAIN ctxBefore.Command.Parameters :
            ctxBefore.Command.Parameters[i].Name # k

\* C5: an invocation whose context has a nil command, a nil parameter map, a
\* required parameter without an entry or an entry without a declaration has
\* returned the invalid-context error, having run no later stage and no child.
C5_InvalidContextRejected ==
    (pc # "idle" /\ (CommandMissing \/ ParametersMissing \/ RequiredAbsent \/ UnknownKey)) =>
        /\ pc = "returned"
        /\ outcome[1] = "invalid execution context"
        /\ stages = << <<"validate", "failed">> >>
        /\ ~ChildStarted
        /\ CommandMissing => outcome[2] = <<"command is nil">>
        /\ ParametersMissing => outcome[2] = <<"parameters map is nil">>
        /\ RequiredAbsent => outcome[2][1] = "required parameter is missing"
        /\ (UnknownKey /\ ~RequiredAbsent) => outcome[2][1] \in {"unknown parameter", "parameter"}

\* A context whose only defect is an undeclared key was rejected for that key.
C5_Witness ==
    /\ pc = "returned"
    /\ UnknownKey /\ ~RequiredAbsent
    /\ outcome = <<"invalid execution context", <<"unknown parameter", "count">> >>

\* C6: once the lookup has run (validation passed) for a platform the command has
\* no template for, Execute has returned the unsupported-platform error naming
\* the command and the platform, with nothing rendered and no child.
C6_UnsupportedPlatform ==
    (Len(stages) >= 2 /\ ctx.Platform \notin DOMAIN ctx.Command.Platforms) =>
        /\ pc = "returned"
        /\ outcome = <<"not supported on platform", ctx.Command.Name, ctx.Platform>>
        /\ stages = << <<"validate", "ok">>, <<"lookup", "failed">> >>
        /\ renderedCmd = <<>>
        /\ ~ChildStarted

\* A valid context for a platform without a template was refused.
C6_Witness ==
    /\ pc = "returned"
    /\ stages = << <<"validate", "ok">>, <<"lookup", "failed">> >>
    /\ outcome = <<"not supported on platform", "test", "windows">>

(***************************************************************************)
(* Properties of ParseParameters, checked under SpecParse.  They describe  *)
(* the call's inputs on their own terms: which declared parameters the     *)
(* flag map supplies, and the place of every other parameter among those   *)
(* it does not.                                                            *)
(***************************************************************************)
Declared == cmd.Parameters

\* The engine's precondition on a command: its parameter names are distinct.
UniqueNames ==
    \A i, j \in DOMAIN Declared : i # j => Declared[i].Name # Declared[j].Name

\* The flag-map key k names the flag of parameter p, with or without its dashes.
FlagHit(p, k) == p.Flag = k \/ p.Flag = <<"-", "-">> \o k

\* The keys of the flag map whose value goes to the i-th declared parameter: a
\* key goes to the first declared parameter whose flag it names.
KeysFor(i) ==
    {k \in DOMAIN flags :
        FlagHit(Declared[i], k) /\ \A j \in 1..(i - 1) : ~FlagHit(Declared[j], k)}

\* The declared parameters the flag map supplies.
Flagged == {i \in DOMAIN Declared : KeysFor(i) # {}}

\* The place of parameter i among the parameters the flag map does not supply.
Rank(i) == Cardinality({j \in 1..i : j \notin Flagged})

\* The conversion of the positional argument that falls to parameter i.
Converted(i) == convertArgument(args[Rank(i)], Declared[i].Type)

\* Parameter i is not supplied by a flag and a positional argument falls to it.
TakesArg(i) == i \notin Flagged /\ Rank(i) <= Len(args)

\* Parameter i is required, not supplied by a flag, and no argument is left for it.
Unsatisfied(i) == Declared[i].Required /\ i \notin Flagged /\ Rank(i) > Len(args)

\* The value parameter i holds in the returned map, Nil when it has no entry.
Got(i) ==
    IF Declared[i].Name \in DOMAIN result.params THEN result.params[Declared[i].Name]
    ELSE Nil

\* C7: for a command with distinct parameter names, a call succeeds exactly when
\* every argument converts under the parameter it falls to and no required
\* parameter is left out; then the k-th argument is stored, converted with its
\* type, under the k-th declared parameter the flag map does not supply, a
\* parameter the flag map supplies holds the flag's value as given, and a
\* parameter with neither holds its default or nothing.  A failed conversion
\* fails the call, naming the first parameter whose argument does not convert.
C7_PositionalInDeclarationOrder ==
    (calls >= 1 /\ UniqueNames) =>
        /\ result.err = NoErr <=>
             /\ \A i \in DOMAIN Declared : TakesArg(i) => Converted(i).err = NoErr
             /\ \A i \in DOMAIN Declared : ~Unsatisfied(i)
        /\ result.err = NoErr =>
             \A i \in DOMAIN Declared :
                /\ i \in Flagged => Got(i) \in {flags[k] : k \in KeysFor(i)}
                /\ TakesArg(i) => Got(i) = Converted(i).val
                /\ (i \notin Flagged /\ ~TakesArg(i)) => Got(i) = Declared[i].Default
        /\ (result.err # NoErr /\ result.err[1] = "parameter") =>
             \E i \in DOMAIN Declared :
                /\ TakesArg(i)
                /\ result.err = <<"parameter", Declared[i].Name, Converted(i).err>>
                /\ \A j \in 1..(i - 1) : TakesArg(j) => Converted(j).err = NoErr

\* The first parameter came from a flag, stored as given (a bool for a string
\* parameter), so the only argument, "5", went to the second one as the int 5.
C7_Witness ==
    /\ calls >= 1
    /\ cmd = TwoOptional
    /\ args = << <<"5">> >>
    /\ DOMAIN flags = {<<"-", "-", "p1">>}
    /\ result.err = NoErr
    /\ result.params = [p1 |-> BoolV(TRUE), p2 |-> IntV(5)]

\* Exactly two parameters, both optional, of different names.
TwoOptionalShape ==
    /\ Len(Declared) = 2
    /\ ~Declared[1].Required /\ ~Declared[2].Required
    /\ UniqueNames

\* The entry of P2 is what flags and default alone give it.
SecondWithoutArg ==
    IF 2 \in Flagged THEN Got(2) \in {flags[k] : k \in KeysFor(2)}
    ELSE Got(2) = Declared[2].Default

\* C8 (as claimed): with two optional parameters P1, P2 and exactly one positional
\* argument, the argument is assigned to P1 and not to P2, whatever the flag map
\* holds.
C8_OnlyArgAlwaysToFirst ==
    (calls >= 1 /\ TwoOptionalShape /\ Len(args) = 1
        /\ convertArgument(args[1], Declared[1].Type).err = NoErr) =>
        /\ result.err = NoErr
        /\ Got(1) = convertArgument(args[1], Declared[1].Type).val
        /\ SecondWithoutArg

\* C8 (amended): with two optional parameters P1, P2 and exactly one positional
\* argument, the argument goes to P1 and not to P2 when the flag map does not
\* supply P1; when it supplies P1 and not P2, P1 holds the flag's value and the
\* argument goes to P2; when it supplies both, the argument is ignored.  The
\* call fails, returning no map, when the argument does not convert to the type
\* of the parameter it goes to.
C8_OnlyArgToFirstUnflagged ==
    (calls >= 1 /\ TwoOptionalShape /\ Len(args) = 1) =>
        /\ 1 \notin Flagged =>
             LET c == convertArgument(args[1], Declared[1].Type)
             IN  IF c.err = NoErr
                 THEN result.err = NoErr /\ Got(1) = c.val /\ SecondWithoutArg
                 ELSE result.isNil /\ result.err = <<"parameter", Declared[1].Name, c.err>>
        /\ (1 \in Flagged /\ 2 \notin Flagged) =>
             LET c == convertArgument(args[1], Declared[2].Type)
             IN  IF c.err = NoErr
                 THEN /\ result.err = NoErr
                      /\ Got(1) \in {flags[k] : k \in KeysFor(1)}
                      /\ Got(2) = c.val
                 ELSE result.isNil /\ result.err = <<"parameter", Declared[2].Name, c.err>>
        /\ (1 \in Flagged /\ 2 \in Flagged) =>
             /\ result.err = NoErr
             /\ Got(1) \in {flags[k] : k \in KeysFor(1)}
             /\ Got(2) \in {flags[k] : k \in KeysFor(2)}

\* The flag map supplies P2 only, and the one argument went to P1.
C8_Witness ==
    /\ calls >= 1
    /\ cmd = TwoOptional
    /\ args = << <<"5">> >>
    /\ Flagged = {2}
    /\ result.params = [p1 |-> StrV(<<"5">>), p2 |-> IntV(7)]

\* C9: for a command with distinct parameter names, a call in which some required
\* parameter is neither supplied by a flag nor reached by an argument fails and
\* returns the nil map; unless an earlier argument failed to convert (which ends
\* the call before that parameter is reached), the error is the missing-required
\* error naming the first such parameter, whether or not it declares a default.
C9_MissingRequiredFails ==
    (calls >= 1 /\ UniqueNames /\ \E i \in DOMAIN Declared : Unsatisfied(i)) =>
        /\ result.err # NoErr
        /\ result.isNil
        /\ result.params = EmptyMap
        /\ (\A j \in DOMAIN Declared : TakesArg(j) => Converted(j).err = NoErr) =>
             \E i \in DOMAIN Declared :
                /\ Unsatisfied(i)
                /\ \A j \in 1..(i - 1) : ~Unsatisfied(j)
                /\ result.err = <<"required parameter not provided", Declared[i].Name>>

\* A required parameter with a declared default, no flag and no argument: the call
\* failed rather than use the default.
C9_Witness ==
    /\ calls >= 1
    /\ cmd = RequiredDefault
    /\ args = <<>>
    /\ flags = EmptyMap
    /\ Declared[2].Default = IntV(3)
    /\ result = Failure(<<"required parameter not provided", "level">>)

\* C10 (as claimed): two calls on the same command, arguments and flag map return
\* the same result.
C10_SameInputSameResult == calls >= 2 => result = prevResult

\* C26: an optional parameter that no flag supplies and no positional argument
\* is left for holds its declared default in the returned map, and has no entry
\* when it declares none; a parameter that a flag or an argument supplied holds
\* that value, never its default.
C26_DefaultOnlyWhenUnsupplied ==
    (calls >= 1 /\ UniqueNames /\ result.err = NoErr) =>
        \A i \in DOMAIN Declared :
            LET name == Declared[i].Name
            IN  /\ (~Declared[i].Required /\ i \notin Flagged /\ ~TakesArg(i)) =>
                       IF Declared[i].Default # Nil
                       THEN name \in DOMAIN result.params
                              /\ result.params[name] = Declared[i].Default
                       ELSE name \notin DOMAIN result.params
                /\ i \in Flagged =>
                       /\ name \in DOMAIN result.params
                       /\ \E k \in KeysFor(i) : result.params[name] = flags[k]
                /\ TakesArg(i) =>
                       /\ name \in DOMAIN result.params
                       /\ result.params[name] = Converted(i).val

\* The only argument went to the first parameter; of the two optional ones left,
\* the one with a default holds it and the one without has no entry.
C26_Witness ==
    /\ calls >= 1
    /\ cmd = TestCommand
    /\ args = << <<"t">> >>
    /\ flags = EmptyMap
    /\ result.err = NoErr
    /\ result.params = [message |-> StrV(<<"t">>), count |-> IntV(1)]

\* The command declares supported types only, and no default.
PlainCommand ==
    \A i \in DOMAIN Declared :
        /\ Declared[i].Type \in {"string", "bool", "int", "float"}
        /\ Declared[i].Default = Nil

\* C29: for a command with distinct parameter names and supported types, every
\* map ParseParameters returns from positional arguments alone (the flag map
\* empty, no defaults declared) passes validateContext.
C29_ResolvedMapIsValid ==
    (checked # NotChecked /\ UniqueNames /\ PlainCommand /\ flags = EmptyMap) =>
        checked = NoErr

\* A float, a bool and an int, each converted from its argument, passed
\* validateContext.
C29_Witness ==
    /\ checked = NoErr
    /\ cmd = Typed
    /\ flags = EmptyMap
    /\ args = << <<"1", ".", "5">>, <<"t">>, <<"5">> >>
    /\ Kind(result.params["ratio"]) = "float64"
    /\ result.params["force"] = BoolV(TRUE)
    /\ result.params["n"] = IntV(5)

\* The flag-map keys that name the flag of some declared parameter.
MatchingKeys == {k \in DOMAIN flags : \E i \in DOMAIN Declared : FlagHit(Declared[i], k)}

\* The flag map without the entries that name no parameter's flag.
MatchingFlags == [k \in MatchingKeys |-> flags[k]]

\* The arguments without those beyond the number of parameters that the flag
\* map does not supply.
NeededArgs ==
    LET n == Cardinality(DOMAIN Declared \ Flagged)
    IN  IF Len(args) > n THEN SubSeq(args, 1, n) ELSE args

\* C30: surplus input never fails a call and never shows in its result: the
\* call returns what it returns without the positional arguments beyond the
\* parameters left to supply and without the flags that name no parameter, and
\* the keys of a returned map are names of declared parameters.
C30_SurplusIgnored ==
    calls >= 1 =>
        /\ \E order \in Orders(MatchingKeys) :
               result = ParseParameters(cmd, NeededArgs, MatchingFlags, order)
        /\ DOMAIN result.params \subseteq {Declared[i].Name : i \in DOMAIN Declared}

\* Three arguments and a flag that names nothing, for two parameters of which
\* the flag map supplies one: one argument was used.
C30_Witness ==
    /\ calls >= 1
    /\ cmd = TwoOptional
    /\ Len(args) = 3
    /\ DOMAIN flags = {<<"verbose">>, <<"-", "-", "p1">>}
    /\ result.err = NoErr
    /\ DOMAIN result.params = {"p1", "p2"}
    /\ result.params["p2"] = IntV(5)

(***************************************************************************)
(* Properties of validateParameterType and convertArgument, checked under  *)
(* SpecTypes.                                                              *)
(***************************************************************************)
Validated == "validate" \in typeCalls

ConvertedArg == "convert" \in typeCalls

\* The native integer types of every width.
EveryIntWidth == {"int", "int8", "int16", "int32", "int64"}

\* C11 (as claimed): for a parameter declared int, every native integer of any
\* width (8, 16, 32, 64 bit and the platform int) is accepted, and native floats,
\* booleans and every other kind that is neither an integer nor text is rejected.
C11_IntAcceptsEveryWidth ==
    (Validated /\ typeDef.Type = "int") =>
        /\ Kind(typeValue) \in EveryIntWidth => typeErr = NoErr
        /\ Kind(typeValue) \in {"float32", "float64", "bool", "nil", "[]string"} =>
             typeErr # NoErr

\* s is an optional sign followed by one or more decimal digits.
IntegerText(s) ==
    \E a \in 0..1 :
        /\ a < Len(s)
        /\ a = 1 => s[1] \in {"+", "-"}
        /\ \A i \in (a + 1)..Len(s) : s[i] \in Digits

\* The decimal order of magnitude of the number written with integer digits
\* s[a+1..b], fraction digits s[b+2..c] and exponent x; none for zero.
Decade(s, a, b, c, x) ==
    LET lead == {i \in (a + 1)..b : s[i] # "0"}
        frac == {i \in (b + 2)..c : s[i] # "0"}
    IN  IF lead # {} THEN <<TRUE, b - (CHOOSE i \in lead : \A j \in lead : i <= j) + x>>
        ELSE IF frac # {}
        THEN <<TRUE, x - ((CHOOSE i \in frac : \A j \in frac : i <= j) - b - 1)>>
        ELSE <<FALSE, 0>>

\* s is a decimal floating-point number within float64's range: an optional sign,
\* digits, optionally a point and digits (a digit on one side at least),
\* optionally an exponent.
DecimalFloatText(s) ==
    \E a \in 0..1, b, c \in 0..Len(s) :
        /\ a <= b /\ b <= c
        /\ a = 1 => s[1] \in {"+", "-"}
        /\ \A i \in (a + 1)..b : s[i] \in Digits
        /\ c > b => s[b + 1] = "." /\ \A i \in (b + 2)..c : s[i] \in Digits
        /\ (b - a) + (IF c > b THEN c - b - 1 ELSE 0) >= 1
        /\ c < Len(s) => s[c + 1] \in {"e", "E"} /\ IntegerText(SubSeq(s, c + 2, Len(s)))
        /\ LET x == IF c < Len(s) THEN AtoiVal(SubSeq(s, c + 2, Len(s))) ELSE 0
               d == Decade(s, a, b, c, x)
           IN  d[1] => d[2] <= 308

\* s is an infinity or a NaN, which float64 has values for.
SpecialFloatText(s) ==
    Lower(s) \in {<<"i", "n", "f">>, <<"+", "i", "n", "f">>, <<"-", "i", "n", "f">>,
                  <<"i", "n", "f", "i", "n", "i", "t", "y">>,
                  <<"+", "i", "n", "f", "i", "n", "i", "t", "y">>,
                  <<"-", "i", "n", "f", "i", "n", "i", "t", "y">>, <<"n", "a", "n">>}

\* C12: for a parameter declared int, a text is accepted exactly when the whole
\* of it is an integer, and for one declared float exactly when the whole of it is
\* a floating-point number (a decimal one in range, an infinity or a NaN); "12x",
\* the empty text and "abc" are rejected for both; a native float32 or float64 is
\* accepted for float.
C12_NumericTextIffWholeParse ==
    Validated =>
        /\ (typeDef.Type = "int" /\ Kind(typeValue) = "string") =>
             (typeErr = NoErr <=> IntegerText(Payload(typeValue)))
        /\ (typeDef.Type = "float" /\ Kind(typeValue) = "string") =>
             (typeErr = NoErr <=>
                 DecimalFloatText(Payload(typeValue)) \/ SpecialFloatText(Payload(typeValue)))
        /\ (typeDef.Type = "float" /\ Kind(typeValue) \in {"float32", "float64"}) =>
             typeErr = NoErr
        /\ (typeDef.Type \in {"int", "float"}
                /\ typeValue \in {StrV(<<"1", "2", "x">>), StrV(<<>>), StrV(<<"a", "b", "c">>)}) =>
             typeErr # NoErr

\* The text "12x" was refused for an int parameter as an unparseable string.
C12_Witness ==
    /\ Validated
    /\ typeDef.Type = "int"
    /\ typeValue = StrV(<<"1", "2", "x">>)
    /\ typeErr = <<"unparseable string", "int", <<"1", "2", "x">> >>

\* C13: a value is accepted for a parameter declared string exactly when it is
\* text, and for one declared bool exactly when it is a native boolean; the texts
\* "true" and "false" and the integers 1 and 0 are rejected for bool.
C13_StringAndBoolByKind ==
    Validated =>
        /\ typeDef.Type = "string" => (typeErr = NoErr <=> Kind(typeValue) = "string")
        /\ typeDef.Type = "bool" => (typeErr = NoErr <=> Kind(typeValue) = "bool")
        /\ (typeDef.Type = "bool"
                /\ typeValue \in {StrV(<<"t", "r", "u", "e">>), StrV(<<"f", "a", "l", "s", "e">>),
                                  IntV(1), IntV(0)}) =>
             typeErr # NoErr

\* The text "true" was refused for a bool parameter.
C13_Witness ==
    /\ Validated
    /\ typeDef.Type = "bool"
    /\ typeValue = StrV(<<"t", "r", "u", "e">>)
    /\ typeErr = <<"expected", "bool", "string">>

\* The literals the claim lists for true and for false.
TrueLiterals ==
    {<<"t", "r", "u", "e">>, <<"1">>, <<"t">>, <<"T">>, <<"T", "R", "U", "E">>,
     <<"T", "r", "u", "e">>}

FalseLiterals ==
    {<<"f", "a", "l", "s", "e">>, <<"0">>, <<"f">>, <<"F">>, <<"F", "A", "L", "S", "E">>,
     <<"F", "a", "l", "s", "e">>}

\* C14: convertArgument with target type bool returns true, without an error, on
\* true, 1, t, T, TRUE and True, false on false, 0, f, F, FALSE and False, and fails
\* on every other text.
C14_BoolLiteralsExactly ==
    (ConvertedArg /\ typeDef.Type = "bool") =>
        IF convArg \in TrueLiterals THEN convResult = [val |-> BoolV(TRUE), err |-> NoErr]
        ELSE IF convArg \in FalseLiterals
        THEN convResult = [val |-> BoolV(FALSE), err |-> NoErr]
        ELSE convResult.err # NoErr

\* "tRUE", a spelling outside the set, failed to convert.
C14_Witness ==
    /\ ConvertedArg
    /\ typeDef.Type = "bool"
    /\ convArg = <<"t", "R", "U", "E">>
    /\ convResult.err = <<"strconv.ParseBool", <<"t", "R", "U", "E">> >>

\* C15: for a declared type other than string, bool, int and float, the empty
\* string included, validateParameterType fails for every value and
\* convertArgument fails for every raw text, both with the unsupported-type error.
C15_TypeSetClosed ==
    typeDef.Type \notin {"string", "bool", "int", "float"} =>
        /\ Validated => typeErr = <<"unsupported parameter type", typeDef.Type>>
        /\ ConvertedArg =>
             /\ convResult.err = <<"unsupported parameter type", typeDef.Type>>
             /\ convResult.val = Nil

\* Both functions were called with the empty string as the declared type, on a
\* text that every known type but bool would take, and both failed.
C15_Witness ==
    /\ Validated /\ ConvertedArg
    /\ typeDef.Type = ""
    /\ typeValue = StrV(<<"5">>) /\ convArg = <<"5">>
    /\ typeErr # NoErr /\ convResult.err # NoErr

(***************************************************************************)
(* Properties of renderTemplate, checked under SpecRender.                 *)
(***************************************************************************)
\* The parameter the conditional names is present and true.
VerboseTrue == "verbose" \in DOMAIN tmplParams /\ tmplParams["verbose"] = BoolV(TRUE)

\* t is s without some whitespace at its two ends.
OuterTrimOf(t, s) ==
    \E i \in 0..Len(s) :
        \E j \in i..Len(s) :
            /\ \A k \in 1..i : s[k] \in Whitespace
            /\ \A k \in (j + 1)..Len(s) : s[k] \in Whitespace
            /\ t = SubSeq(s, i + 1, j)

\* C16: rendering the template pre, base command, sep, conditional on verbose
\* (then, else), mid, parameter, post succeeds and expands to pre, the command's
\* base command, sep, the then text if verbose is true and the else text if it is
\* false or absent, mid, the named parameter's value (a string as it is, an
\* integer in decimal) and post; what is returned is that expansion, outer
\* whitespace apart.
C16_SubstitutionAndConditional ==
    tmplCalled =>
        \A sh \in TemplateShapes :
            tmplText = TemplateOf(sh) =>
                LET branch == IF VerboseTrue THEN sh.then ELSE sh.else
                    head == sh.pre \o tmplCommand.BaseCommand \o sh.sep \o branch \o sh.mid
                    n == Len(tmplBuffer)
                    seg == SubSeq(tmplBuffer, Len(head) + 1, n - Len(sh.post))
                IN  /\ tmplResult.err = NoErr
                    /\ n >= Len(head) + Len(sh.post)
                    /\ SubSeq(tmplBuffer, 1, Len(head)) = head
                    /\ SubSeq(tmplBuffer, n - Len(sh.post) + 1, n) = sh.post
                    /\ (sh.name \in DOMAIN tmplParams
                            /\ Kind(tmplParams[sh.name]) = "string") =>
                         seg = Payload(tmplParams[sh.name])
                    /\ (sh.name \in DOMAIN tmplParams /\ Kind(tmplParams[sh.name]) = "int") =>
                         AtoiOK(seg) /\ AtoiVal(seg) = Payload(tmplParams[sh.name])
                    /\ OuterTrimOf(tmplResult.text, tmplBuffer)

\* The template of the engine's tests with verbose true and message "hi".
C16_Witness ==
    /\ tmplCalled
    /\ tmplText = EchoTemplate
    /\ VerboseTrue
    /\ tmplResult = [text |-> <<"echo", " ", "-", "v", " ", "'", "h", "i", "'">>,
                     err |-> NoErr]

\* C17: the text renderTemplate returns is what the template expanded to with
\* whitespace removed at its two ends only: it neither starts nor ends with
\* whitespace, and it is a stretch of the expansion with nothing but whitespace
\* before and after it, so every inner character, whitespace included, is kept.
C17_OnlyOuterWhitespaceTrimmed ==
    (tmplCalled /\ tmplResult.err = NoErr) =>
        /\ tmplResult.text # <<>> =>
             /\ tmplResult.text[1] \notin Whitespace
             /\ tmplResult.text[Len(tmplResult.text)] \notin Whitespace
        /\ OuterTrimOf(tmplResult.text, tmplBuffer)

\* A conditional that rendered nothing between two spaces left both spaces in the
\* returned text, while whitespace at the ends of the expansion was removed.
C17_Witness ==
    /\ tmplCalled
    /\ tmplResult.err = NoErr
    /\ ~VerboseTrue
    /\ Len(tmplResult.text) < Len(tmplBuffer)
    /\ \E k \in 1..(Len(tmplResult.text) - 1) :
         /\ tmplResult.text[k] = " " /\ tmplResult.text[k + 1] = " "
         /\ k = Len(tmplCommand.BaseCommand) + 1

\* The parameters the conditionals of a template test.
ConditionKeys(template) ==
    {template.nodes[i][2] :
        i \in {j \in DOMAIN template.nodes : template.nodes[j][1] \in {"if", "ifn"}}}

\* C28: a parameter that is not in the map counts as false in a conditional:
\* renderTemplate does not fail, and returns what it returns for the same map
\* with that parameter present and false.
C28_AbsentIsFalse ==
    (tmplCalled /\ tmplText.ok) =>
        \A n \in ConditionKeys(tmplText) \ DOMAIN tmplParams :
            /\ tmplResult.err = NoErr
            /\ tmplResult =
                  renderTemplate(tmplCommand, tmplText, MapPut(tmplParams, n, BoolV(FALSE)))

\* The template of the engine's tests rendered without verbose in the map: the
\* switch is left out.
C28_Witness ==
    /\ tmplCalled
    /\ tmplText = EchoTemplate
    /\ tmplCommand = EchoCommand
    /\ DOMAIN tmplParams = {"message"}
    /\ tmplParams["message"] = StrV(<<"h", "i">>)
    /\ tmplResult = [text |-> <<"echo", " ", "'", "h", "i", "'">>, err |-> NoErr]

(***************************************************************************)
(* Further properties of Execute, checked under Spec.                      *)
(***************************************************************************)
\* C18: from the call of Execute on, and after it has returned with success or
\* with any error, the context's command, platform, parameter map (keys and
\* values) and timeout are what they were when Execute was called.
C18_ContextNeverModified ==
    pc # "idle" =>
        /\ ctx.CommandNil = ctxBefore.CommandNil
        /\ ctx.Command = ctxBefore.Command
        /\ ctx.Platform = ctxBefore.Platform
        /\ ctx.ParametersNil = ctxBefore.ParametersNil
        /\ DOMAIN ctx.Parameters = DOMAIN ctxBefore.Parameters
        /\ \A k \in DOMAIN ctx.Parameters : ctx.Parameters[k] = ctxBefore.Parameters[k]
        /\ ctx.Timeout = ctxBefore.Timeout

\* Execute has returned an error from an invocation that rendered its parameters
\* and ran its command under the engine's timeout, the context's being zero: the
\* local timeout was replaced, the context's was not.
C18_Witness ==
    /\ pc = "returned"
    /\ outcome # NoErr
    /\ spawned = 1
    /\ DOMAIN ctx.Parameters # {}
    /\ ctx.Timeout = 0
    /\ timeout = engine.timeout /\ timeout # 0

\* C20: an invocation starts at most one child, and none before cmd.Run(); once
\* cmd.Run() has returned an error (after a timeout, a non-zero exit or a failure
\* to start) the invocation never goes back to running the command, and when it
\* has returned, its outcome is that error.
C20_AtMostOneChild ==
    /\ spawned <= 1
    /\ pc \in {"idle", "lookup", "render", "exec", "start"} => spawned = 0 /\ proc = "none"
    /\ runErr # NoErr => pc \in {"classify", "returned"}
    /\ (pc = "returned" /\ runErr # NoErr) =>
         /\ outcome # NoErr
         /\ outcome = ClassifyError(runErr, ctxErr, ExpectedTimeout, renderedCmd)

\* Execute has returned the exit code of its only child, which exited with 3.
C20_Witness ==
    /\ pc = "returned"
    /\ spawned = 1
    /\ proc = "exited"
    /\ outcome = <<"ExitErrorWithCode", 3>>

(***************************************************************************)
(* Properties of concurrent invocations, checked under SpecConcurrent.     *)
(***************************************************************************)
\* The locals of the first invocation, as a record like those of inv.
MyLocals ==
    [ctx |-> ctx, ctxBefore |-> ctxBefore, pc |-> pc, stages |-> stages,
     outcome |-> outcome, platformCmd |-> platformCmd, renderedCmd |-> renderedCmd,
     timeout |-> timeout, armed |-> armed, elapsed |-> elapsed, ctxErr |-> ctxErr,
     proc |-> proc, exitStatus |-> exitStatus, hitRunning |-> hitRunning,
     spawned |-> spawned, runErr |-> runErr]

\* What the invocation with locals l yields follows from its own context, its own
\* child and its own deadline, as it does when the invocation runs alone.
OwnOutcome(l) ==
    LET own == IF l.ctxBefore.Timeout # 0 THEN l.ctxBefore.Timeout ELSE engine.timeout
        failed(k) == Len(l.stages) = k /\ l.stages[k][2] = "failed"
    IN  /\ l.ctx = l.ctxBefore
        /\ l.spawned <= 1
        /\ (l.armed \/ l.spawned > 0) => l.timeout = own
        /\ l.ctxErr = "DeadlineExceeded" => l.elapsed >= l.timeout
        /\ l.proc = "killed" => l.ctxErr = "DeadlineExceeded" /\ l.hitRunning
        /\ l.proc = "running" => l.ctxErr = "nil" /\ l.elapsed < l.timeout
        /\ l.pc = "returned" =>
             /\ l.proc # "running"
             /\ failed(1) =>
                  \E order \in Orders(DOMAIN l.ctxBefore.Parameters) :
                     l.outcome = <<"invalid execution context",
                                   validateContext(l.ctxBefore, order)>>
             /\ failed(2) =>
                  l.outcome = <<"not supported on platform", l.ctxBefore.Command.Name,
                                l.ctxBefore.Platform>>
             /\ failed(3) => l.outcome[1] = "failed to render command template"
             /\ Len(l.stages) = 4 =>
                  /\ l.outcome = ClassifyError(l.runErr, l.ctxErr, own, l.renderedCmd)
                  /\ l.hitRunning => l.outcome[1] = "command timed out"
                  /\ (l.proc = "exited" /\ l.exitStatus = 0 /\ l.ctxErr = "nil") =>
                       l.outcome = NoErr
                  /\ (l.proc = "exited" /\ l.exitStatus # 0 /\ l.ctxErr = "nil") =>
                       l.outcome = <<"ExitErrorWithCode", l.exitStatus>>

\* A step leaves the Engine as NewEngine made it and changes the locals, the
\* child and the deadline of one invocation only; what it does to the first
\* invocation is a step that invocation takes when it runs alone.
OneInvocationSteps ==
    /\ engine' = engine
    /\ MyLocals' # MyLocals => (inv' = inv /\ Next)
    /\ inv' # inv => MyLocals' = MyLocals

\* C19: with two invocations of Execute running concurrently on one Engine, the
\* Engine's fields are never written, every step touches the child and the
\* deadline of one invocation only, and what each invocation returns is what
\* its own context, its own child and its own deadline make it return alone.
C19_InvocationsIndependent ==
    /\ [](OwnOutcome(MyLocals) /\ OwnOutcome(inv[1]))
    /\ [][OneInvocationSteps]_vars

\* One invocation returned success from a child that exited with 0 although the
\* other one's child was killed at its deadline and it returned the timed-out
\* error.
C19_Witness ==
    /\ Len(inv) = 1
    /\ pc = "returned" /\ spawned = 1 /\ proc = "exited" /\ outcome = NoErr
    /\ inv[1].pc = "returned" /\ inv[1].proc = "killed"
    /\ inv[1].outcome[1] = "command timed out"

\* C27: Execute returns nil only when it started a child for the rendered
\* command and the child exited with status 0; after a failed validation,
\* lookup or rendering, a child that could not be started, a timeout or a
\* non-zero exit it returns an error, and the error carries an exit code only
\* when the child exited with a non-zero status, which is the code it carries.
C27_NilOnlyAfterZeroExit ==
    pc = "returned" =>
        /\ outcome = NoErr =>
              /\ stages = << <<"validate", "ok">>, <<"lookup", "ok">>, <<"render", "ok">>,
                             <<"run", "started">> >>
              /\ spawned = 1
              /\ proc = "exited"
              /\ exitStatus = 0
        /\ (\/ \E i \in DOMAIN stages : stages[i][2] = "failed"
            \/ spawned = 0
            \/ proc = "killed"
            \/ (proc = "exited" /\ exitStatus # 0)) => outcome # NoErr
        /\ (outcome # NoErr /\ outcome[1] = "ExitErrorWithCode") =>
              /\ proc = "exited"
              /\ exitStatus # 0
              /\ outcome[2] = exitStatus

\* head rendered with its count, ran one time unit and exited with 0: Execute
\* returned nil.
C27_Witness ==
    /\ pc = "returned"
    /\ outcome = NoErr
    /\ ctx.Command = HeadCommand
    /\ renderedCmd = <<"head", " ", "5">>
    /\ spawned = 1 /\ proc = "exited" /\ exitStatus = 0
    /\ elapsed = 1

(***************************************************************************)
(* Properties of the command line, checked under SpecCLI.                  *)
(***************************************************************************)
\* cobra let the command run and executeCommand has called ParseParameters.
ParametersParsed ==
    /\ appPc \in {"executing", "returned", "exited"}
    /\ appErr = NoErr \/ appErr[1] \notin {"unknown command", "required flag(s) not set"}

\* C21: the goldfish process exits with the status N of the child whenever
\* Execute returned an error carrying the exit code N, and with 1 only for an
\* error that carries no exit code.
C21_ExitStatusIsChildStatus ==
    appPc = "exited" =>
        /\ (outcome # NoErr /\ outcome[1] = "ExitErrorWithCode") => exitCode = outcome[2]
        /\ exitCode = 1 => (appErr # NoErr /\ appErr[1] # "ExitErrorWithCode")

\* The parameter map Execute was given holds the in-place switch set, an
\* expression and a file, and the linux template of replace-in-file was rendered.
InPlaceRendered ==
    /\ cmd = ReplaceInFile
    /\ goos = "linux"
    /\ <<"render", "ok">> \in {stages[i] : i \in DOMAIN stages}
    /\ {"in-place", "expression", "file"} \subseteq DOMAIN ctx.Parameters
    /\ ctx.Parameters["in-place"] = BoolV(TRUE)

\* C22: replace-in-file on linux, resolved with the in-place flag set, an
\* expression E and a file F, renders to sed -i 'E' F.
C22_InPlaceRendersSwitch ==
    InPlaceRendered =>
        renderedCmd = <<"sed", " ", "-", "i", " ", "'">>
                          \o Payload(ctx.Parameters["expression"]) \o <<"'", " ">>
                          \o Payload(ctx.Parameters["file"])

\* C23: a value given through the flag generated for a parameter is in the
\* resolved map under the parameter's name, whether the parameter declares a
\* flag alias or not.
C23_FlagValueReachesParameter ==
    (ParametersParsed /\ result.err = NoErr) =>
        \A i \in DOMAIN cmd.Parameters :
            LET param == cmd.Parameters[i]
            IN  FlagNameOf(param) \in DOMAIN cliFlags =>
                    /\ param.Name \in DOMAIN result.params
                    /\ result.params[param.Name] = cliFlags[FlagNameOf(param)]

(***************************************************************************)
(* Properties of MergeConfigs, checked under SpecMerge.                    *)
(***************************************************************************)
\* The names and the aliases a configuration defines.
Identifiers(config) ==
    {config.Commands[i].Name : i \in DOMAIN config.Commands}
        \cup ({config.Commands[i].Alias : i \in DOMAIN config.Commands} \ {""})

\* The positions of the base commands that no command of override replaces.
Surviving ==
    {i \in DOMAIN mBase.Commands :
        /\ mBase.Commands[i].Name \notin Identifiers(mOverride)
        /\ mBase.Commands[i].Alias \notin Identifiers(mOverride)}

\* The k-th surviving position, in the order of base.
SurvivorAt(k) ==
    CHOOSE i \in Surviving : Cardinality({j \in Surviving : j <= i}) = k

\* The result is override's commands in order, then base's surviving commands
\* in order.
MergedAsClaimed ==
    LET n == Len(mOverride.Commands)
        r == mResult.Commands
    IN  /\ ~mResult.isNil
        /\ Len(r) = n + Cardinality(Surviving)
        /\ \A i \in 1..n : r[i] = mOverride.Commands[i]
        /\ \A k \in 1..Cardinality(Surviving) : r[n + k] = mBase.Commands[SurvivorAt(k)]

\* C24: MergeConfigs of two configurations returns override's commands in their
\* order, then exactly the commands of base whose name and alias are no name or
\* alias of override, so a name both define is looked up to override's command;
\* with a nil argument it returns the other one (nil for two nils); it changes
\* neither input.
C24_MergePrefersOverride ==
    /\ [](mCalled =>
            /\ (~mBase.isNil /\ ~mOverride.isNil) =>
                   /\ MergedAsClaimed
                   /\ \A id \in Identifiers(mBase) \cap Identifiers(mOverride) :
                          FindCommand(mResult, id) = FindCommand(mOverride, id)
            /\ mBase.isNil => mResult = mOverride
            /\ mOverride.isNil => mResult = mBase)
    /\ [][mBase' = mBase /\ mOverride' = mOverride]_vars

\* A merge in which an alias of override replaces one command of base and
\* another command of base survives.
C24_Witness ==
    /\ mCalled
    /\ ~mBase.isNil /\ ~mOverride.isNil
    /\ Cardinality(Surviving) = 1
    /\ Len(mBase.Commands) = 2
    /\ \E i \in DOMAIN mBase.Commands :
          /\ i \notin Surviving
          /\ mBase.Commands[i].Name \notin
                 {mOverride.Commands[j].Name : j \in DOMAIN mOverride.Commands}
    /\ Len(mResult.Commands) = Len(mOverride.Commands) + 1

(***************************************************************************)
(* Properties of Loader.validate, checked under SpecValidate.              *)
(***************************************************************************)
\* C25: a configuration Loader.validate accepts has unique identifiers: no text
\* is a name or alias of two different commands, in whatever order they are
\* listed; the parameter names of each command are pairwise distinct; every
\* platform of every command has a non-empty template.
C25_AcceptedIsUnambiguous ==
    (vCalled /\ vErr = NoErr) =>
        LET cs == vConfig.Commands
            ids(i) == {cs[i].Name} \cup ({cs[i].Alias} \ {""})
        IN  /\ \A i, j \in DOMAIN cs : i # j => ids(i) \cap ids(j) = {}
            /\ \A i \in DOMAIN cs : \A k, l \in DOMAIN cs[i].Parameters :
                   k # l => cs[i].Parameters[k].Name # cs[i].Parameters[l].Name
            /\ \A i \in DOMAIN cs : \A p \in DOMAIN cs[i].Platforms :
                   cs[i].Platforms[p].Template # ""

====
